---- MODULE Spec2Model ----
(***************************************************************************)
(* Rectangular-waveguide eigenmode solver (Guia_de_Ondas/Guia_rectangular): *)
(* rect_mesh, assemble_K_M and solve_mode, modelled as one call of          *)
(* solve_mode that advances through the stages of its body.                 *)
(*                                                                          *)
(* Numbers.  Python floats are carried as exact rationals <<num, den>>      *)
(* (den > 0, lowest terms).  Lengths are in nanometres, so that the two     *)
(* tolerances of the code are whole numbers: np.isclose's atol 1e-8 m is    *)
(* 10 nm and the area tolerance 1e-18 m^2 is 1 nm^2.  Wavenumbers are in    *)
(* units of pi/(W*H) and eigenvalues in units of (pi/(W*H))^2; sqrt is the  *)
(* square root rounded down to that fixed-point grid.                       *)
(*                                                                          *)
(* Arrays are functions on 0..n-1, indexed as in the Python source.         *)
(***************************************************************************)
EXTENDS Integers, Sequences, FiniteSets, TLC

\* ------------------------------------------------------------------------
\* Bounds of the model and the inputs a call is drawn from
\* ------------------------------------------------------------------------
MaxNx == 5

MaxNy == 3

NxInputs == -1 .. MaxNx

NyInputs == -1 .. MaxNy

\* guide width / height in nm: one below and one above what the isclose
\* tolerance resolves on the finer grids
Lengths == {16, 48}

Kinds == { <<"T","E">>, <<"T","M">>, <<"t","e">>, <<"T","X">> }

Modes == { <<1, 0>>, <<1, 1>> }

KEigsInputs == {1, 12}

\* assemble_K_M called on its own (as in assembly.py's test block): grids of
\* DirectSizes nodes per side over lengths that put hx*hy/2 below, at and
\* above the area tolerance
DirectSizes == {2, 3}

DirectLengths == {1, 2, 16}

\* triangles a caller may pass besides the generated ones: nodes in a row,
\* a repeated node, a clockwise triangle, a counter-clockwise one
ExtraTris == { <<0, 1, 2>>, <<0, 1, 1>>, <<1, 3, 2>>, <<3, 0, 1>> }

\* ------------------------------------------------------------------------
\* Python arrays: functions on 0..n-1
\* ------------------------------------------------------------------------
PyLen(a) == Cardinality(DOMAIN a)

PyEmpty == [i \in {} |-> 0]

\* list.append: the list with x at the index len(a)
PyAppend(a, x) == a @@ (PyLen(a) :> x)

PyConcat(a, b) ==
    [i \in 0 .. (PyLen(a) + PyLen(b) - 1) |->
        IF i < PyLen(a) THEN a[i] ELSE b[i - PyLen(a)]]

PyRange(a) == {a[i] : i \in DOMAIN a}

\* ------------------------------------------------------------------------
\* Exact rationals standing for floats
\* ------------------------------------------------------------------------
Abs(x) == IF x < 0 THEN -x ELSE x

Max(a, b) == IF a >= b THEN a ELSE b

Min(a, b) == IF a <= b THEN a ELSE b

RECURSIVE GCD(_, _)
GCD(a, b) == IF b = 0 THEN a ELSE GCD(b, a % b)

RNorm(num, den) ==
    LET g == GCD(Abs(num), Abs(den))
        s == IF den < 0 THEN -1 ELSE 1
    IN  <<(s * num) \div g, (s * den) \div g>>

RInt(k) == <<k, 1>>

\* name = value: f at the value of x, which is worked out once, where it is
\* assigned, and then only read
Let(f(_), x) == CHOOSE r \in {f(xv) : xv \in {x}} : TRUE

\* sums and products cancel common factors before they multiply, so that
\* the intermediate integers stay small; the operands are numbers the
\* program holds before it operates on them, pq is the pair of their values
RAdd(p, q) ==
    Let(LAMBDA pq :
            LET g == GCD(pq[1][2], pq[2][2])
            IN  RNorm(pq[1][1] * (pq[2][2] \div g)
                          + pq[2][1] * (pq[1][2] \div g),
                      (pq[1][2] \div g) * pq[2][2]),
        <<p, q>>)

RSub(p, q) ==
    Let(LAMBDA pq :
            LET g == GCD(pq[1][2], pq[2][2])
            IN  RNorm(pq[1][1] * (pq[2][2] \div g)
                          - pq[2][1] * (pq[1][2] \div g),
                      (pq[1][2] \div g) * pq[2][2]),
        <<p, q>>)

RMul(p, q) ==
    Let(LAMBDA pq :
            LET g1 == GCD(Abs(pq[1][1]), pq[2][2])
                g2 == GCD(Abs(pq[2][1]), pq[1][2])
            IN  RNorm((pq[1][1] \div g1) * (pq[2][1] \div g2),
                      (pq[1][2] \div g2) * (pq[2][2] \div g1)),
        <<p, q>>)

RDiv(p, q) ==
    Let(LAMBDA pq :
            IF pq[2][1] = 0
            THEN RNorm(pq[1][1] * pq[2][2], pq[1][2] * pq[2][1])
            ELSE RMul(pq[1], IF pq[2][1] < 0 THEN <<-pq[2][2], -pq[2][1]>>
                                             ELSE <<pq[2][2], pq[2][1]>>),
        <<p, q>>)

RAbs(p) == <<Abs(p[1]), p[2]>>

RNeg(p) == <<-p[1], p[2]>>

RLeq(p, q) == p[1] * q[2] <= q[1] * p[2]

RLt(p, q) == p[1] * q[2] < q[1] * p[2]

RMax(p, q) == IF RLt(p, q) THEN q ELSE p

VARIABLES
    kind, m, n, Nx, Ny, W, H, k_eigs,   \* the arguments of solve_mode
    pc,                                 \* position in solve_mode's body
    raised,                             \* the exception that ended the call
    mesh,                               \* what rect_mesh returned: Xy, Tri, h
    K, M,                               \* assemble_K_M's matrices
    elem,                               \* assemble_K_M's position in elems
    interior, Kii, Mii,                 \* active dofs and reduced matrices
    kc_ana, sigma, k_req,
    eigsh_k,                            \* the k each eigsh call was given
    eigsh_ret,                          \* what eigsh returned
    vals, vecs, idx,                    \* eigenpairs and the sort order
    kc_list, j, kc_fem, vec, err,
    result,                             \* the returned tuple
    variant,                            \* which Helmholtz package is running
    domain,                             \* the HelmholtzDomain object
    nbl,                                \* the argument of pml_domain
    frequency, velocity_array, source, alpha,
    F,                                  \* assemble_fem_system's load vector
    sampled,                            \* the last element's quadrature samples
    xi_eta,                             \* the point a shape-function call is given
    U, u_2d,                            \* solve_helmholtz_fem: solution, field
    source_2d,                          \* the source over the grid
    locals,                             \* the elements' local matrices
    progress,                           \* local pairs added so far, by element
    order,                              \* which element came first, overlap
    script,                             \* the convergence script that runs
    level,                              \* its position in the refinements
    h,                                  \* the mesh size it pairs with the run
    records,                            \* what it has stored for each level
    built,                              \* meshes built for this configuration
    pml_calls                           \* the nbl of each pml_domain call

vars == <<kind, m, n, Nx, Ny, W, H, k_eigs, pc, raised, mesh, K, M,
          elem, interior, Kii, Mii, kc_ana, sigma, k_req, eigsh_k, eigsh_ret,
          vals, vecs, idx, kc_list, j, kc_fem, vec, err, result,
          variant, domain, nbl, frequency, velocity_array, source, alpha,
          F, sampled, xi_eta, U, u_2d, source_2d, locals, progress,
          order, script, level, h, records, built, pml_calls>>

\* the state of the Helmholtz solvers
hvars == <<variant, domain, nbl, frequency, velocity_array, source, alpha,
           F, sampled>>

\* the state of the calls made outside solve_mode and the assembly run
xvars == <<xi_eta, U, u_2d, source_2d, locals, progress, order>>

\* the state of a scatter made in another order than the loops'
svars == <<locals, progress, order>>

args == <<kind, m, n, Nx, Ny, W, H, k_eigs>>

None == "None"

\* the state of a script that calls solve_mode level by level
yvars == <<script, level, h, records, built, pml_calls>>

\* solve_mode is called on its own: no script runs, no mesh is built yet
scriptless ==
    /\ script = None /\ level = None /\ h = None /\ records = None
    /\ built = 0
    /\ pml_calls = <<>>

\* no such call is under way
xidle ==
    /\ xi_eta = None /\ U = None /\ u_2d = None /\ source_2d = None
    /\ locals = None /\ progress = None /\ order = None

\* ------------------------------------------------------------------------
\* mesh.py
\* ------------------------------------------------------------------------

\* np.linspace(0, stop, num): num samples, step stop/(num-1), a single
\* sample is the start point
linspace(stop, num) ==
    [k \in 0 .. (num - 1) |->
        IF num = 1 THEN RInt(0) ELSE RNorm(k * stop, num - 1)]

\* mutant: indexing="ij" for the x grid (one row per x)
meshgrid_X_ij(xs, ys) == [r \in DOMAIN xs |-> [c \in DOMAIN ys |-> xs[r]]]

\* np.meshgrid(xs, ys, indexing="xy"): both results have one row per y
meshgrid_X(xs, ys) == [r \in DOMAIN ys |-> xs]

meshgrid_Y(xs, ys) == [r \in DOMAIN ys |-> [c \in DOMAIN xs |-> ys[r]]]

\* ndarray.ravel(): the rows one after the other
RECURSIVE ravel_from(_, _)
ravel_from(A, r) ==
    IF r >= PyLen(A) THEN PyEmpty ELSE PyConcat(A[r], ravel_from(A, r + 1))

ravel(A) == ravel_from(A, 0)

\* np.c_[a, b]: the two columns side by side
c_(a, b) == [p \in DOMAIN a |-> <<a[p], b[p]>>]

nidx(i, jj, nx) == jj * nx + i

\* mutant: the upper-right corner taken one node too far
cell_tris_offbyone(i, jj, nx) ==
    LET n00 == nidx(i, jj, nx)
        n10 == nidx(i + 1, jj, nx)
        n01 == nidx(i, jj + 1, nx)
        n11 == nidx(i + 1, jj + 1, nx) + 1
    IN  << <<n00, n10, n11>>, <<n00, n11, n01>> >>

\* mutant: the diagonal flipped in every other cell
cell_tris_alternating(i, jj, nx) ==
    LET n00 == nidx(i, jj, nx)
        n10 == nidx(i + 1, jj, nx)
        n01 == nidx(i, jj + 1, nx)
        n11 == nidx(i + 1, jj + 1, nx)
    IN  IF (i + jj) % 2 = 0
        THEN << <<n00, n10, n11>>, <<n00, n11, n01>> >>
        ELSE << <<n00, n10, n01>>, <<n10, n11, n01>> >>

\* mutant: the first triangle of a cell repeats its second node
cell_tris_collapsed(i, jj, nx) ==
    LET n00 == nidx(i, jj, nx)
        n10 == nidx(i + 1, jj, nx)
        n01 == nidx(i, jj + 1, nx)
        n11 == nidx(i + 1, jj + 1, nx)
    IN  << <<n00, n10, n10>>, <<n00, n11, n01>> >>

\* the two triangles the loop body appends for cell (i, jj)
cell_tris(i, jj, nx) ==
    LET n00 == nidx(i, jj, nx)
        n10 == nidx(i + 1, jj, nx)
        n01 == nidx(i, jj + 1, nx)
        n11 == nidx(i + 1, jj + 1, nx)
    IN  << <<n00, n10, n11>>, <<n00, n11, n01>> >>

\* for jj in range(Ny-1): for i in range(Nx-1): two appends
RECURSIVE tris_loop(_, _, _, _, _)
tris_loop(i, jj, nx, ny, tris) ==
    IF jj >= ny - 1 THEN tris
    ELSE IF i >= nx - 1 THEN tris_loop(0, jj + 1, nx, ny, tris)
    ELSE Let(LAMBDA grown : tris_loop(i + 1, jj, nx, ny, grown),
             LET t == cell_tris(i, jj, nx)
             IN  PyAppend(PyAppend(tris, t[1]), t[2]))

\* rect_mesh(Nx, Ny, W, H): the returned triple, or the exception raised
rect_mesh(nx, ny, w, hh) ==
    IF nx < 0 \/ ny < 0
    THEN [raised |-> "ValueError: linspace", Xy |-> None, Tri |-> None, h |-> None]
    ELSE
    LET xs == linspace(w, nx)
        ys == linspace(hh, ny)
        XS == meshgrid_X(xs, ys)
        YS == meshgrid_Y(xs, ys)
        Xy == c_(ravel(XS), ravel(YS))
        Tri == tris_loop(0, 0, nx, ny, PyEmpty)
    IN  IF nx - 1 = 0 \/ ny - 1 = 0
        THEN [raised |-> "ZeroDivisionError", Xy |-> None, Tri |-> None, h |-> None]
        ELSE [raised |-> None, Xy |-> Xy, Tri |-> Tri,
              h |-> RMax(RNorm(w, nx - 1), RNorm(hh, ny - 1))]

\* ------------------------------------------------------------------------
\* assembly.py
\* ------------------------------------------------------------------------

\* area <= 1e-18 (m^2) skips the element; 1 nm^2 in the model's units
AreaTol == 1

\* Mloc = (1/12) * [[2,1,1],[1,2,1],[1,1,2]]
Mloc(a, b) == IF a = b THEN RNorm(2, 12) ELSE RNorm(1, 12)

zeros(N) == [I \in 0 .. (N - 1) |-> [J \in 0 .. (N - 1) |-> RInt(0)]]

\* x = coords[ids, 0], y = coords[ids, 1]
tri_x(coords, ids) == <<coords[ids[1]][1], coords[ids[2]][1], coords[ids[3]][1]>>

tri_y(coords, ids) == <<coords[ids[1]][2], coords[ids[2]][2], coords[ids[3]][2]>>

\* np.linalg.det of A = [[1,x0,y0],[1,x1,y1],[1,x2,y2]]
detA(x, y) ==
    RAdd(RSub(RSub(RMul(x[2], y[3]), RMul(x[3], y[2])),
              RSub(RMul(x[1], y[3]), RMul(x[3], y[1]))),
         RSub(RMul(x[1], y[2]), RMul(x[2], y[1])))

\* area = 0.5 * abs(detA)
tri_area(coords, ids) ==
    RMul(RNorm(1, 2), RAbs(detA(tri_x(coords, ids), tri_y(coords, ids))))

\* mutant: an element whose area equals the tolerance is assembled
degenerate_strict(coords, ids) == RLt(tri_area(coords, ids), RInt(AreaTol))

\* if area <= 1e-18: continue
degenerate(coords, ids) == RLeq(tri_area(coords, ids), RInt(AreaTol))

\* b = invA[1, :] of the inverse of A (adjugate over determinant)
coef_b(x, y, det) ==
    <<RDiv(RSub(y[2], y[3]), det), RDiv(RSub(y[3], y[1]), det),
      RDiv(RSub(y[1], y[2]), det)>>

\* c = invA[2, :]
coef_c(x, y, det) ==
    <<RDiv(RSub(x[3], x[2]), det), RDiv(RSub(x[1], x[3]), det),
      RDiv(RSub(x[2], x[1]), det)>>

\* mutant: the second outer product pairs c with b
Ke_outer_cb(coords, ids) ==
    LET x == tri_x(coords, ids)
        y == tri_y(coords, ids)
        det == detA(x, y)
        area == tri_area(coords, ids)
        b == coef_b(x, y, det)
        c == coef_c(x, y, det)
        e(p, q) == RMul(area, RAdd(RMul(b[p], b[q]), RMul(c[p], b[q])))
    IN  << <<e(1, 1), e(1, 2), e(1, 3)>>,
           <<e(2, 1), e(2, 2), e(2, 3)>>,
           <<e(3, 1), e(3, 2), e(3, 3)>> >>

\* Ke = area * (np.outer(b, b) + np.outer(c, c)), rows and columns 1..3
Ke(coords, ids) ==
    LET x == tri_x(coords, ids)
        y == tri_y(coords, ids)
        det == detA(x, y)
        area == tri_area(coords, ids)
        b == coef_b(x, y, det)
        c == coef_c(x, y, det)
        e(p, q) == RMul(area, RAdd(RMul(b[p], b[q]), RMul(c[p], c[q])))
    IN  << <<e(1, 1), e(1, 2), e(1, 3)>>,
           <<e(2, 1), e(2, 2), e(2, 3)>>,
           <<e(3, 1), e(3, 2), e(3, 3)>> >>

\* Me = area * Mloc
Me(coords, ids) ==
    LET area == tri_area(coords, ids)
        e(p, q) == RMul(area, Mloc(p, q))
    IN  << <<e(1, 1), e(1, 2), e(1, 3)>>,
           <<e(2, 1), e(2, 2), e(2, 3)>>,
           <<e(3, 1), e(3, 2), e(3, 3)>> >>

\* G[I, J] = v, the entry assigned where the code adds to it
add_at_assign(G, I, J, v) == [G EXCEPT ![I][J] = v]

\* G[I, J] += v
add_at(G, I, J, v) == [G EXCEPT ![I][J] = RAdd(@, v)]

\* K[I,J] += Ke[i,j]; M[I,J] += Me[i,j] for the local pair q = 3*i + j
scatter_step(ids, ke, me, q, KM) ==
    LET a == q \div 3
        b == q % 3
        I == ids[a + 1]
        J == ids[b + 1]
    IN  [Kmat |-> add_at(KM.Kmat, I, J, ke[a + 1][b + 1]),
         Mmat |-> add_at(KM.Mmat, I, J, me[a + 1][b + 1])]

\* for i in range(3): for j in range(3): K[I,J] += Ke[i,j]; M[I,J] += Me[i,j]
\* (q = 3*i + j runs over the nine local pairs in loop order; each pass of
\* the outer loop makes the three additions of its row, q, q + 1 and q + 2)
RECURSIVE scatter(_, _, _, _, _)
scatter(ids, ke, me, q, KM) ==
    IF q >= 9 THEN KM
    ELSE Let(LAMBDA row : scatter(ids, ke, me, q + 3, row),
             scatter_step(ids, ke, me, q + 2,
                 scatter_step(ids, ke, me, q + 1,
                     scatter_step(ids, ke, me, q, KM))))

\* one pass of "for tri in elems": skip a degenerate element, else scatter it
assemble_element(coords, ids, KM) ==
    IF degenerate(coords, ids) THEN KM
    ELSE Let(LAMBDA loc : scatter(ids, loc[1], loc[2], 0, KM),
             <<Ke(coords, ids), Me(coords, ids)>>)

\* ------------------------------------------------------------------------
\* analytic.py
\* ------------------------------------------------------------------------

\* the r with r*r <= v < (r+1)*(r+1), by bisection on lo*lo <= v < hi*hi
RECURSIVE isqrt_between(_, _, _)
isqrt_between(v, lo, hi) ==
    IF hi - lo <= 1 THEN lo
    ELSE LET mid == (lo + hi) \div 2
         IN  IF mid * mid <= v THEN isqrt_between(v, mid, hi)
                               ELSE isqrt_between(v, lo, mid)

\* np.sqrt on the fixed-point grid
sqrt(v) == isqrt_between(v, 0, v + 1)

\* kc_rect = sqrt((m*pi/W)^2 + (n*pi/H)^2), in units of pi/(W*H)
kc_rect(mm, nn, w, hh) == sqrt((mm * hh) * (mm * hh) + (nn * w) * (nn * w))

\* ------------------------------------------------------------------------
\* eigen.py: the pieces of solve_mode
\* ------------------------------------------------------------------------

\* str.upper() on the characters the inputs use
upper_char(ch) ==
    CASE ch = "t" -> "T"
      [] ch = "e" -> "E"
      [] ch = "m" -> "M"
      [] ch = "x" -> "X"
      [] OTHER -> ch

upper(s) == [i \in DOMAIN s |-> upper_char(s[i])]

\* mutant: an unrecognised kind falls through to the Neumann branch
mode_policy_default_te(s) ==
    IF upper(s) = <<"T", "M">> THEN "Dirichlet" ELSE "Neumann"

\* if kind.upper() == "TM": ... elif kind.upper() == "TE": ... else: raise
mode_policy(s) ==
    IF upper(s) = <<"T", "M">> THEN "Dirichlet"
    ELSE IF upper(s) = <<"T", "E">> THEN "Neumann"
    ELSE "raise"

\* np.isclose(a, b) with the defaults: |a - b| <= atol + rtol * |b|,
\* atol = 1e-8 (m) = 10 nm, rtol = 1e-5
IscloseAtol == 10

IscloseRtolInv == 100000

isclose(a, b) ==
    RLeq(RAbs(RSub(a, b)),
         RAdd(RInt(IscloseAtol), RMul(RNorm(1, IscloseRtolInv), RAbs(b))))

\* mutant: the top wall (y = H) is not tested
bnd_missing_top(Xy, w, hh, p) ==
    \/ isclose(Xy[p][1], RInt(0))
    \/ isclose(Xy[p][1], RInt(w))
    \/ isclose(Xy[p][2], RInt(0))

\* bnd = isclose(x, 0) | isclose(x, W) | isclose(y, 0) | isclose(y, H)
bnd(Xy, w, hh, p) ==
    \/ isclose(Xy[p][1], RInt(0))
    \/ isclose(Xy[p][1], RInt(w))
    \/ isclose(Xy[p][2], RInt(0))
    \/ isclose(Xy[p][2], RInt(hh))

\* np.where(mask)[0] for the index set S the mask selects: S in ascending order
where(S) ==
    [r \in 0 .. (Cardinality(S) - 1) |->
        CHOOSE p \in S : Cardinality({q \in S : q < p}) = r]

\* np.where(~bnd)[0]
where_not_bnd(Xy, w, hh) == where({p \in DOMAIN Xy : ~bnd(Xy, w, hh, p)})

arange(N) == [p \in 0 .. (N - 1) |-> p]

\* G[interior][:, interior]
submatrix(G, dofs) ==
    [r \in DOMAIN dofs |-> [c \in DOMAIN dofs |-> G[dofs[r]][dofs[c]]]]

\* mutant: the margin is one instead of two
k_req_of_margin1(keigs, dim) == Min(Max(8, keigs), dim - 1)

\* k_req = min(max(8, k_eigs), Kii.shape[0] - 2)
k_req_of(keigs, dim) == Min(Max(8, keigs), dim - 2)

\* What eigsh(Kii, k, M=Mii, sigma, which="LM") may return: k eigenvalues
\* near the shift in any order (negative and repeated ones among them), each
\* with its own vector in the same column of vecs.
eig_candidates(sig) ==
    LET kc == sqrt(sig)
    IN  [q \in 0 .. 6 |->
            CASE q = 0 -> -3
              [] q = 1 -> 0
              [] q = 2 -> (kc - 2) * (kc - 2)
              [] q = 3 -> (kc - 1) * (kc - 1)
              [] q = 4 -> (kc + 1) * (kc + 1)
              [] q = 5 -> (kc + 2) * (kc + 2)
              [] OTHER -> (kc + 1) * (kc + 1) + 1]

eigsh_vals(sig, k, start, stride) ==
    [p \in 0 .. (k - 1) |-> eig_candidates(sig)[(start + stride * p) % 7]]

eigsh_vecs(dim, k, off) ==
    [r \in 0 .. (dim - 1) |->
        [p \in 0 .. (k - 1) |->
            (IF (p + off) % 2 = 0 THEN 1 ELSE -1) * ((r + p) % 3)]]

\* np.argsort(vals): a permutation that puts vals in ascending order; equal
\* values keep their order (stable) or not
argsort(v, stable) ==
    LET before(q1, q2) ==
            \/ v[q1] < v[q2]
            \/ v[q1] = v[q2] /\ (IF stable THEN q1 < q2 ELSE q1 > q2)
        rank(q) == Cardinality({q1 \in DOMAIN v : before(q1, q)})
    IN  [p \in DOMAIN v |-> CHOOSE q \in DOMAIN v : rank(q) = p]

\* vals[idx]
take(v, ix) == [p \in DOMAIN ix |-> v[ix[p]]]

\* mutant: the eigenvectors are left in eigsh's order
take_columns_unpermuted(vs, ix) == vs

\* vecs[:, idx]
take_columns(vs, ix) == [r \in DOMAIN vs |-> [p \in DOMAIN ix |-> vs[r][ix[p]]]]

\* np.clip(v, 0.0, None)
clip0(v) == IF v < 0 THEN 0 ELSE v

\* np.sqrt(np.clip(vals, 0.0, None))
kc_list_of(v) == [p \in DOMAIN v |-> sqrt(clip0(v[p]))]

\* int(np.argmin(d)): the first index of the minimum
argmin(d) ==
    CHOOSE p \in DOMAIN d :
        /\ \A q \in DOMAIN d : d[p] <= d[q]
        /\ \A q \in DOMAIN d : q < p => d[q] > d[p]

select_j(kcs, kca) == argmin([p \in DOMAIN kcs |-> Abs(kcs[p] - kca)])

\* mutant: vec[:len(interior)] = vecs[:, j], ignoring which nodes are active
expand_leading(N, dofs, vs, col) ==
    [p \in 0 .. (N - 1) |-> IF p < PyLen(dofs) THEN vs[p][col] ELSE 0]

\* vec = np.zeros(Xy.shape[0]); vec[interior] = vecs[:, j]
expand(N, dofs, vs, col) ==
    [p \in 0 .. (N - 1) |->
        IF \E r \in DOMAIN dofs : dofs[r] = p
        THEN vs[CHOOSE r \in DOMAIN dofs : dofs[r] = p][col]
        ELSE 0]

RECURSIVE sum_from(_, _)
sum_from(v, p) == IF p >= PyLen(v) THEN 0 ELSE v[p] + sum_from(v, p + 1)

\* np.sum(vec)
sum(v) == sum_from(v, 0)

\* mutant: the vector is returned with whatever sign eigsh gave it
sign_normalise_skipped(v) == v

\* if np.sum(vec) < 0: vec = -vec
sign_normalise(v) == IF sum(v) < 0 THEN [p \in DOMAIN v |-> -v[p]] ELSE v

\* err = abs(kc_fem - kc_ana) / kc_ana * 100.0
rel_err(kcf, kca) == RNorm(Abs(kcf - kca) * 100, kca)

\* ------------------------------------------------------------------------
\* solve_mode(kind, m, n, Nx, Ny, W, H, k_eigs), stage by stage
\* ------------------------------------------------------------------------

Init ==
    /\ scriptless
    /\ kind \in Kinds
    /\ \E md \in Modes : m = md[1] /\ n = md[2]
    /\ Nx \in NxInputs
    /\ Ny \in NyInputs
    /\ W \in Lengths
    /\ H \in Lengths
    /\ k_eigs \in KEigsInputs
    /\ pc = "rect_mesh"
    /\ raised = None
    /\ mesh = None
    /\ K = None /\ M = None /\ elem = None
    /\ interior = None /\ Kii = None /\ Mii = None
    /\ kc_ana = None /\ sigma = None /\ k_req = None
    /\ eigsh_k = <<>>
    /\ eigsh_ret = None
    /\ vals = None /\ vecs = None /\ idx = None
    /\ kc_list = None /\ j = None /\ kc_fem = None /\ vec = None /\ err = None
    /\ result = None
    /\ variant = None /\ domain = None /\ nbl = None
    /\ frequency = None /\ velocity_array = None /\ source = None
    /\ alpha = None /\ F = None /\ sampled = None
    /\ xidle

\* Xy, Tri, h = rect_mesh(Nx, Ny, W, H)
RectMesh ==
    /\ pc = "rect_mesh"
    /\ LET r == rect_mesh(Nx, Ny, W, H)
       IN  IF r.raised # None
           THEN /\ raised' = r.raised
                /\ pc' = "failed"
                /\ mesh' = mesh
           ELSE /\ mesh' = [Xy |-> r.Xy, Tri |-> r.Tri, h |-> r.h]
                /\ pc' = "assemble_init"
                /\ raised' = raised
    /\ UNCHANGED hvars
    /\ built' = built + 1
    /\ UNCHANGED <<script, level, h, records, pml_calls>>
    /\ UNCHANGED xvars
    /\ UNCHANGED <<args, K, M, elem, interior, Kii, Mii, kc_ana, sigma,
                   k_req, eigsh_k, eigsh_ret, vals, vecs, idx, kc_list, j,
                   kc_fem, vec, err, result>>

\* assemble_K_M(Xy, Tri): K = lil_matrix((N, N)); M = lil_matrix((N, N))
AssembleInit ==
    /\ pc = "assemble_init"
    /\ K' = zeros(PyLen(mesh.Xy))
    /\ M' = zeros(PyLen(mesh.Xy))
    /\ elem' = 0
    /\ pc' = "assemble"
    /\ UNCHANGED hvars
    /\ UNCHANGED yvars
    /\ UNCHANGED xvars
    /\ UNCHANGED <<args, raised, mesh, interior, Kii, Mii, kc_ana, sigma,
                   k_req, eigsh_k, eigsh_ret, vals, vecs, idx, kc_list, j,
                   kc_fem, vec, err, result>>

\* assemble_K_M: one iteration of "for tri in elems"
AssembleElement ==
    /\ pc = "assemble"
    /\ elem < PyLen(mesh.Tri)
    /\ LET KM == assemble_element(mesh.Xy, mesh.Tri[elem],
                                  [Kmat |-> K, Mmat |-> M])
       IN  K' = KM.Kmat /\ M' = KM.Mmat
    /\ elem' = elem + 1
    /\ UNCHANGED hvars
    /\ UNCHANGED yvars
    /\ UNCHANGED xvars
    /\ UNCHANGED <<args, pc, raised, mesh, interior, Kii, Mii, kc_ana, sigma,
                   k_req, eigsh_k, eigsh_ret, vals, vecs, idx, kc_list, j,
                   kc_fem, vec, err, result>>

\* assemble_K_M: the loop is over; return csr_matrix(K), csr_matrix(M)
AssembleReturn ==
    /\ pc = "assemble"
    /\ elem >= PyLen(mesh.Tri)
    /\ pc' = "boundary"
    /\ UNCHANGED hvars
    /\ UNCHANGED yvars
    /\ UNCHANGED xvars
    /\ UNCHANGED <<args, raised, mesh, K, M, elem, interior, Kii, Mii,
                   kc_ana, sigma, k_req, eigsh_k, eigsh_ret, vals, vecs, idx,
                   kc_list, j, kc_fem, vec, err, result>>

\* the boundary-condition stage: interior for TM / TE, ValueError otherwise
Boundary ==
    /\ pc = "boundary"
    /\ IF mode_policy(kind) = "Dirichlet"
       THEN /\ interior' = where_not_bnd(mesh.Xy, W, H)
            /\ pc' = "reduce"
            /\ raised' = raised
       ELSE IF mode_policy(kind) = "Neumann"
       THEN /\ interior' = arange(PyLen(mesh.Xy))
            /\ pc' = "reduce"
            /\ raised' = raised
       ELSE /\ raised' = "ValueError: kind"
            /\ pc' = "failed"
            /\ interior' = interior
    /\ UNCHANGED hvars
    /\ UNCHANGED yvars
    /\ UNCHANGED xvars
    /\ UNCHANGED <<args, mesh, K, M, elem, Kii, Mii, kc_ana, sigma, k_req,
                   eigsh_k, eigsh_ret, vals, vecs, idx, kc_list, j, kc_fem,
                   vec, err, result>>

\* Kii = K[interior][:, interior]; Mii = M[interior][:, interior]
Reduce ==
    /\ pc = "reduce"
    /\ Kii' = submatrix(K, interior)
    /\ Mii' = submatrix(M, interior)
    /\ pc' = "shift"
    /\ UNCHANGED hvars
    /\ UNCHANGED yvars
    /\ UNCHANGED xvars
    /\ UNCHANGED <<args, raised, mesh, K, M, elem, interior, kc_ana, sigma,
                   k_req, eigsh_k, eigsh_ret, vals, vecs, idx, kc_list, j,
                   kc_fem, vec, err, result>>

\* kc_ana = kc_rect(m, n, W, H); sigma = kc_ana**2; k_req = min(max(...))
Shift ==
    /\ pc = "shift"
    /\ kc_ana' = kc_rect(m, n, W, H)
    /\ sigma' = kc_ana' * kc_ana'
    /\ k_req' = k_req_of(k_eigs, PyLen(Kii))
    /\ pc' = "eigsh"
    /\ UNCHANGED hvars
    /\ UNCHANGED yvars
    /\ UNCHANGED xvars
    /\ UNCHANGED <<args, raised, mesh, K, M, elem, interior, Kii, Mii,
                   eigsh_k, eigsh_ret, vals, vecs, idx, kc_list, j, kc_fem,
                   vec, err, result>>

\* vals, vecs = eigsh(Kii, k=k_req, M=Mii, sigma=sigma, which="LM");
\* vals = np.real(vals)
EigshReturns ==
    /\ pc = "eigsh"
    /\ k_req > 0
    /\ \E start \in 0 .. 6, stride \in {1, 6} :
         /\ vals' = eigsh_vals(sigma, k_req, start, stride)
         /\ vecs' = eigsh_vecs(PyLen(Kii), k_req, start)
    /\ eigsh_ret' = [vals |-> vals', vecs |-> vecs']
    /\ eigsh_k' = Append(eigsh_k, k_req)
    /\ pc' = "argsort"
    /\ UNCHANGED hvars
    /\ UNCHANGED yvars
    /\ UNCHANGED xvars
    /\ UNCHANGED <<args, raised, mesh, K, M, elem, interior, Kii, Mii,
                   kc_ana, sigma, k_req, idx, kc_list, j, kc_fem, vec, err,
                   result>>

\* eigsh refuses k <= 0
EigshRejects ==
    /\ pc = "eigsh"
    /\ k_req <= 0
    /\ eigsh_k' = Append(eigsh_k, k_req)
    /\ raised' = "ValueError: eigsh k"
    /\ pc' = "failed"
    /\ UNCHANGED hvars
    /\ UNCHANGED yvars
    /\ UNCHANGED xvars
    /\ UNCHANGED <<args, mesh, K, M, elem, interior, Kii, Mii, kc_ana, sigma,
                   k_req, eigsh_ret, vals, vecs, idx, kc_list, j, kc_fem,
                   vec, err, result>>

\* eigsh gives up: no convergence, or a singular shifted matrix
EigshFails ==
    /\ pc = "eigsh"
    /\ k_req > 0
    /\ eigsh_k' = Append(eigsh_k, k_req)
    /\ raised' = "ArpackError"
    /\ pc' = "failed"
    /\ UNCHANGED hvars
    /\ UNCHANGED yvars
    /\ UNCHANGED xvars
    /\ UNCHANGED <<args, mesh, K, M, elem, interior, Kii, Mii, kc_ana, sigma,
                   k_req, eigsh_ret, vals, vecs, idx, kc_list, j, kc_fem,
                   vec, err, result>>

\* idx = np.argsort(vals); vals, vecs = vals[idx], vecs[:, idx]
Argsort ==
    /\ pc = "argsort"
    /\ \E stable \in BOOLEAN : idx' = argsort(vals, stable)
    /\ vals' = take(vals, idx')
    /\ vecs' = take_columns(vecs, idx')
    /\ pc' = "select"
    /\ UNCHANGED hvars
    /\ UNCHANGED yvars
    /\ UNCHANGED xvars
    /\ UNCHANGED <<args, raised, mesh, K, M, elem, interior, Kii, Mii,
                   kc_ana, sigma, k_req, eigsh_k, eigsh_ret, kc_list, j,
                   kc_fem, vec, err, result>>

\* kc_list = np.sqrt(np.clip(vals, 0.0, None)); j = argmin(...); kc_fem
Select ==
    /\ pc = "select"
    /\ kc_list' = kc_list_of(vals)
    /\ j' = select_j(kc_list', kc_ana)
    /\ kc_fem' = kc_list'[j']
    /\ pc' = "expand"
    /\ UNCHANGED hvars
    /\ UNCHANGED yvars
    /\ UNCHANGED xvars
    /\ UNCHANGED <<args, raised, mesh, K, M, elem, interior, Kii, Mii,
                   kc_ana, sigma, k_req, eigsh_k, eigsh_ret, vals, vecs, idx,
                   vec, err, result>>

\* vec = np.zeros(Xy.shape[0]); vec[interior] = vecs[:, j]
Expand ==
    /\ pc = "expand"
    /\ vec' = expand(PyLen(mesh.Xy), interior, vecs, j)
    /\ pc' = "sign"
    /\ UNCHANGED hvars
    /\ UNCHANGED yvars
    /\ UNCHANGED xvars
    /\ UNCHANGED <<args, raised, mesh, K, M, elem, interior, Kii, Mii,
                   kc_ana, sigma, k_req, eigsh_k, eigsh_ret, vals, vecs, idx,
                   kc_list, j, kc_fem, err, result>>

\* if np.sum(vec) < 0: vec = -vec
SignNormalise ==
    /\ pc = "sign"
    /\ vec' = sign_normalise(vec)
    /\ pc' = "error"
    /\ UNCHANGED hvars
    /\ UNCHANGED yvars
    /\ UNCHANGED xvars
    /\ UNCHANGED <<args, raised, mesh, K, M, elem, interior, Kii, Mii,
                   kc_ana, sigma, k_req, eigsh_k, eigsh_ret, vals, vecs, idx,
                   kc_list, j, kc_fem, err, result>>

\* err = ...; return kc_fem, kc_ana, err, vec, Xy, Tri
Return ==
    /\ pc = "error"
    /\ err' = rel_err(kc_fem, kc_ana)
    /\ result' = [kc_fem |-> kc_fem, kc_ana |-> kc_ana, err |-> err',
                  vec |-> vec, Xy |-> mesh.Xy, Tri |-> mesh.Tri]
    /\ pc' = "returned"
    /\ UNCHANGED hvars
    /\ UNCHANGED yvars
    /\ UNCHANGED xvars
    /\ UNCHANGED <<args, raised, mesh, K, M, elem, interior, Kii, Mii,
                   kc_ana, sigma, k_req, eigsh_k, eigsh_ret, vals, vecs, idx,
                   kc_list, j, kc_fem, vec>>

Next ==
    \/ RectMesh
    \/ AssembleInit
    \/ AssembleElement
    \/ AssembleReturn
    \/ Boundary
    \/ Reduce
    \/ Shift
    \/ EigshReturns
    \/ EigshRejects
    \/ EigshFails
    \/ Argsort
    \/ Select
    \/ Expand
    \/ SignNormalise
    \/ Return

Spec == Init /\ [][Next]_vars

\* ------------------------------------------------------------------------
\* Numbers of the Helmholtz solvers (Helmholtz_FEM, Helmholtz_interface,
\* Helmholtz_interface_FEM).  Lengths are in metres.  The Gauss points sit
\* at +-1/sqrt(3), so a real is a + b/sqrt(3) with a, b rational, the pair
\* <<a, b>>, and (1/sqrt(3))^2 = 1/3.  A complex number is <<re, im>>.
\* Angular frequencies and PML dampings are in units of 2*pi, mass-matrix
\* entries in units of (2*pi)^2.
\* ------------------------------------------------------------------------
Q3(a) == <<a, RInt(0)>>

Q3Int(k) == <<RInt(k), RInt(0)>>

Q3Add(p, q) ==
    Let(LAMBDA pq : <<RAdd(pq[1][1], pq[2][1]), RAdd(pq[1][2], pq[2][2])>>,
        <<p, q>>)

Q3Sub(p, q) ==
    Let(LAMBDA pq : <<RSub(pq[1][1], pq[2][1]), RSub(pq[1][2], pq[2][2])>>,
        <<p, q>>)

Q3Neg(p) == <<RNeg(p[1]), RNeg(p[2])>>

Q3Mul(p, q) ==
    Let(LAMBDA pq :
            <<RAdd(RMul(pq[1][1], pq[2][1]),
                   RMul(RNorm(1, 3), RMul(pq[1][2], pq[2][2]))),
              RAdd(RMul(pq[1][1], pq[2][2]), RMul(pq[1][2], pq[2][1]))>>,
        <<p, q>>)

\* p / q, through the conjugate a - b/sqrt(3) of the divisor
Q3Div(p, q) ==
    Let(LAMBDA pq :
            Let(LAMBDA d : Q3Mul(pq[1], <<RDiv(pq[2][1], d),
                                          RDiv(RNeg(pq[2][2]), d)>>),
                RSub(RMul(pq[2][1], pq[2][1]),
                     RMul(RNorm(1, 3), RMul(pq[2][2], pq[2][2])))),
        <<p, q>>)

\* the sign of a + b/sqrt(3): -1, 0 or 1
Q3Sign(p) ==
    LET a == p[1][1]
        b == p[2][1]
        aa3 == RMul(RInt(3), RMul(p[1], p[1]))
        bb == RMul(p[2], p[2])
    IN  CASE a >= 0 /\ b >= 0 -> IF a = 0 /\ b = 0 THEN 0 ELSE 1
          [] a <= 0 /\ b <= 0 -> -1
          [] a > 0 /\ b < 0 -> IF RLt(bb, aa3) THEN 1 ELSE -1
          [] OTHER -> IF RLt(aa3, bb) THEN 1 ELSE -1

Q3Lt(p, q) == Q3Sign(Q3Sub(p, q)) < 0

Q3Abs(p) == IF Q3Sign(p) < 0 THEN Q3Neg(p) ELSE p

\* the integer k with k <= p < k + 1
Q3Floor(p) ==
    LET base == p[1][1] \div p[1][2]
        spread == (Abs(p[2][1]) \div p[2][2]) + 1
    IN  CHOOSE k \in (base - spread) .. (base + spread) :
            /\ Q3Sign(Q3Sub(p, Q3Int(k))) >= 0
            /\ Q3Sign(Q3Sub(p, Q3Int(k + 1))) < 0

\* Python's int(float): truncation towards zero
int(p) == IF Q3Sign(p) >= 0 THEN Q3Floor(p) ELSE -Q3Floor(Q3Neg(p))

CReal(q) == <<q, Q3Int(0)>>

CZero == CReal(Q3Int(0))

CAdd(z, w) == <<Q3Add(z[1], w[1]), Q3Add(z[2], w[2])>>

CMul(z, w) ==
    <<Q3Sub(Q3Mul(z[1], w[1]), Q3Mul(z[2], w[2])),
      Q3Add(Q3Mul(z[1], w[2]), Q3Mul(z[2], w[1]))>>

CDiv(z, w) ==
    LET d == Q3Add(Q3Mul(w[1], w[1]), Q3Mul(w[2], w[2]))
    IN  <<Q3Div(Q3Add(Q3Mul(z[1], w[1]), Q3Mul(z[2], w[2])), d),
          Q3Div(Q3Sub(Q3Mul(z[2], w[1]), Q3Mul(z[1], w[2])), d)>>

\* a real times a complex
CScale(q, z) == <<Q3Mul(q, z[1]), Q3Mul(q, z[2])>>

\* ------------------------------------------------------------------------
\* elements.py: BilinearElement (Helmholtz_FEM) and Q1 (Helmholtz_interface)
\* ------------------------------------------------------------------------

\* shape_functions with the factor of N1 mistyped
shape_functions_half(xi, eta) ==
    LET q == Q3(RNorm(1, 4))
        one == Q3Int(1)
        N1 == Q3Mul(Q3Mul(Q3(RNorm(1, 2)), Q3Sub(one, xi)), Q3Sub(one, eta))
        N2 == Q3Mul(Q3Mul(q, Q3Add(one, xi)), Q3Sub(one, eta))
        N3 == Q3Mul(Q3Mul(q, Q3Add(one, xi)), Q3Add(one, eta))
        N4 == Q3Mul(Q3Mul(q, Q3Sub(one, xi)), Q3Add(one, eta))
    IN  [a \in 0 .. 3 |->
            CASE a = 0 -> N1 [] a = 1 -> N2 [] a = 2 -> N3 [] OTHER -> N4]

\* BilinearElement.shape_functions(xi, eta): [N1, N2, N3, N4]
shape_functions(xi, eta) ==
    LET q == Q3(RNorm(1, 4))
        one == Q3Int(1)
        N1 == Q3Mul(Q3Mul(q, Q3Sub(one, xi)), Q3Sub(one, eta))
        N2 == Q3Mul(Q3Mul(q, Q3Add(one, xi)), Q3Sub(one, eta))
        N3 == Q3Mul(Q3Mul(q, Q3Add(one, xi)), Q3Add(one, eta))
        N4 == Q3Mul(Q3Mul(q, Q3Sub(one, xi)), Q3Add(one, eta))
    IN  [a \in 0 .. 3 |->
            CASE a = 0 -> N1 [] a = 1 -> N2 [] a = 2 -> N3 [] OTHER -> N4]

\* BilinearElement.shape_derivatives(xi, eta): (dN_dxi, dN_deta)
shape_derivatives(xi, eta) ==
    LET q == Q3(RNorm(1, 4))
        mq == Q3(RNorm(-1, 4))
        one == Q3Int(1)
    IN  [dN_dxi |->
            [a \in 0 .. 3 |->
                CASE a = 0 -> Q3Mul(mq, Q3Sub(one, eta))
                  [] a = 1 -> Q3Mul(q, Q3Sub(one, eta))
                  [] a = 2 -> Q3Mul(q, Q3Add(one, eta))
                  [] OTHER -> Q3Mul(mq, Q3Add(one, eta))],
         dN_deta |->
            [a \in 0 .. 3 |->
                CASE a = 0 -> Q3Mul(mq, Q3Sub(one, xi))
                  [] a = 1 -> Q3Mul(mq, Q3Add(one, xi))
                  [] a = 2 -> Q3Mul(q, Q3Add(one, xi))
                  [] OTHER -> Q3Mul(q, Q3Sub(one, xi))]]

\* Q1.shape_functions with the upper nodes in clockwise order
Q1_shape_functions_swapped(xi, eta) ==
    LET q == Q3(RNorm(1, 4))
        one == Q3Int(1)
        N1 == Q3Mul(Q3Mul(q, Q3Sub(one, xi)), Q3Sub(one, eta))
        N2 == Q3Mul(Q3Mul(q, Q3Add(one, xi)), Q3Sub(one, eta))
        N3 == Q3Mul(Q3Mul(q, Q3Sub(one, xi)), Q3Add(one, eta))
        N4 == Q3Mul(Q3Mul(q, Q3Add(one, xi)), Q3Add(one, eta))
    IN  [a \in 0 .. 3 |->
            CASE a = 0 -> N1 [] a = 1 -> N2 [] a = 2 -> N3 [] OTHER -> N4]

\* Q1.shape_functions(xi, eta)
Q1_shape_functions(xi, eta) ==
    LET q == Q3(RNorm(1, 4))
        one == Q3Int(1)
        N1 == Q3Mul(Q3Mul(q, Q3Sub(one, xi)), Q3Sub(one, eta))
        N2 == Q3Mul(Q3Mul(q, Q3Add(one, xi)), Q3Sub(one, eta))
        N3 == Q3Mul(Q3Mul(q, Q3Add(one, xi)), Q3Add(one, eta))
        N4 == Q3Mul(Q3Mul(q, Q3Sub(one, xi)), Q3Add(one, eta))
    IN  [a \in 0 .. 3 |->
            CASE a = 0 -> N1 [] a = 1 -> N2 [] a = 2 -> N3 [] OTHER -> N4]

\* Q1.shape_derivatives(xi, eta)
Q1_shape_derivatives(xi, eta) ==
    LET q == Q3(RNorm(1, 4))
        mq == Q3(RNorm(-1, 4))
        one == Q3Int(1)
    IN  [dN_dxi |->
            [a \in 0 .. 3 |->
                CASE a = 0 -> Q3Mul(mq, Q3Sub(one, eta))
                  [] a = 1 -> Q3Mul(q, Q3Sub(one, eta))
                  [] a = 2 -> Q3Mul(q, Q3Add(one, eta))
                  [] OTHER -> Q3Mul(mq, Q3Add(one, eta))],
         dN_deta |->
            [a \in 0 .. 3 |->
                CASE a = 0 -> Q3Mul(mq, Q3Sub(one, xi))
                  [] a = 1 -> Q3Mul(mq, Q3Add(one, xi))
                  [] a = 2 -> Q3Mul(q, Q3Add(one, xi))
                  [] OTHER -> Q3Mul(q, Q3Sub(one, xi))]]

\* ------------------------------------------------------------------------
\* domain.py: HelmholtzDomain
\* ------------------------------------------------------------------------

\* np.linspace(start, stop, num)
np_linspace(start, stop, num) ==
    [k \in 0 .. (num - 1) |->
        IF num = 1 THEN start
        ELSE RAdd(start, RMul(RNorm(k, num - 1), RSub(stop, start)))]

\* HelmholtzDomain(main_shape, main_extension); the attributes pml_domain
\* creates do not exist yet
HelmholtzDomain(main_shape, main_extension) ==
    [main_shape |-> main_shape, main_extension |-> main_extension,
     nx |-> main_shape[1], ny |-> main_shape[2],
     nbl |-> None, lpml |-> None, shape |-> None, extension |-> None,
     x_array |-> None, y_array |-> None, dx |-> None, dy |-> None,
     nk |-> None]

\* Helmholtz_FEM/domain.py: self.lpml = 0.5
LpmlFixed == <<1, 2>>

\* self.lpml after the statements that assign it
lpml_of(v, self, nb) ==
    LET computed ==
            RMul(RDiv(RSub(self.main_extension[2], self.main_extension[1]),
                      RInt(self.main_shape[1] - 1)),
                 RInt(nb))
    IN  IF v = "Helmholtz_FEM" THEN LpmlFixed ELSE computed

\* mutant: the layers are added to the current nx, ny
pml_domain_accumulating(v, self, nb) ==
    LET nx == self.nx + nb * 2
        ny == self.ny + nb * 2
        s1 == [self EXCEPT !.nbl = nb, !.nx = nx, !.ny = ny]
    IN  IF self.main_shape[1] - 1 = 0
        THEN [raised |-> "ZeroDivisionError", self |-> s1]
        ELSE
        LET lp == lpml_of(v, self, nb)
            me == self.main_extension
            ext == <<RSub(me[1], lp), RAdd(me[2], lp),
                     RSub(me[3], lp), RAdd(me[4], lp)>>
            xa == np_linspace(ext[1], ext[2], nx)
            ya == np_linspace(ext[3], ext[4], ny)
            s2 == [s1 EXCEPT !.lpml = lp, !.shape = <<nx, ny>>,
                             !.extension = ext, !.x_array = xa,
                             !.y_array = ya]
        IN  IF nx < 2
            THEN [raised |-> "IndexError", self |-> s2]
            ELSE IF ny < 2
            THEN [raised |-> "IndexError",
                  self |-> [s2 EXCEPT !.dx = RSub(xa[1], xa[0])]]
            ELSE [raised |-> None,
                  self |-> [s2 EXCEPT !.dx = RSub(xa[1], xa[0]),
                                      !.dy = RSub(ya[1], ya[0]),
                                      !.nk = nx * ny]]

\* domain.pml_domain(nbl): the object after the call and what was raised;
\* an exception leaves the attributes assigned before it
pml_domain(v, self, nb) ==
    LET nx == self.main_shape[1] + nb * 2
        ny == self.main_shape[2] + nb * 2
        s1 == [self EXCEPT !.nbl = nb, !.nx = nx, !.ny = ny]
    IN  IF self.main_shape[1] - 1 = 0
        THEN [raised |-> "ZeroDivisionError", self |-> s1]
        ELSE
        LET lp == lpml_of(v, self, nb)
            me == self.main_extension
            ext == <<RSub(me[1], lp), RAdd(me[2], lp),
                     RSub(me[3], lp), RAdd(me[4], lp)>>
            xa == np_linspace(ext[1], ext[2], nx)
            ya == np_linspace(ext[3], ext[4], ny)
            s2 == [s1 EXCEPT !.lpml = lp, !.shape = <<nx, ny>>,
                             !.extension = ext, !.x_array = xa,
                             !.y_array = ya]
        IN  IF nx < 2
            THEN [raised |-> "IndexError", self |-> s2]
            ELSE IF ny < 2
            THEN [raised |-> "IndexError",
                  self |-> [s2 EXCEPT !.dx = RSub(xa[1], xa[0])]]
            ELSE [raised |-> None,
                  self |-> [s2 EXCEPT !.dx = RSub(xa[1], xa[0]),
                                      !.dy = RSub(ya[1], ya[0]),
                                      !.nk = nx * ny]]

\* ------------------------------------------------------------------------
\* pml.py: pml_functions / make_pml_transform
\* ------------------------------------------------------------------------

\* omega = 2*np.pi*frequency, in units of 2*pi
omega_of(fr) == RInt(fr)

\* 2*pi*alpha*frequency*((abs(c[i]) - abs(c[edge]))/lpml)**2, in units of 2*pi
sigma_layer(dom, al, fr, c, i, edge) ==
    LET depth == RDiv(RSub(RAbs(c[i]), RAbs(c[edge])), dom.lpml)
    IN  RMul(RMul(RInt(al), RInt(fr)), RMul(depth, depth))

sigma_x(dom, al, fr, x_idx) ==
    IF x_idx < dom.nbl
    THEN sigma_layer(dom, al, fr, dom.x_array, x_idx, dom.nbl)
    ELSE IF x_idx > dom.nx - dom.nbl - 1
    THEN sigma_layer(dom, al, fr, dom.x_array, x_idx, dom.nx - dom.nbl - 1)
    ELSE RInt(0)

sigma_y(dom, al, fr, y_idx) ==
    IF y_idx < dom.nbl
    THEN sigma_layer(dom, al, fr, dom.y_array, y_idx, dom.nbl)
    ELSE IF y_idx > dom.ny - dom.nbl - 1
    THEN sigma_layer(dom, al, fr, dom.y_array, y_idx, dom.ny - dom.nbl - 1)
    ELSE RInt(0)

\* s_tilde = 1 - 1j*sigma/omega
s_tilde(sg, fr) == <<Q3Int(1), Q3(RNeg(RDiv(sg, omega_of(fr))))>>

\* pml_transform(x_idx, y_idx) raises ZeroDivisionError: omega is the float
\* 0.0 and one of sigma_x, sigma_y is the float 0.0 of the interior branch,
\* so that 1j*0.0/0.0 divides Python numbers (a layer's sigma is a numpy
\* number, whose division by 0.0 gives nan with a warning)
pml_raises(dom, fr, x_idx, y_idx) ==
    /\ omega_of(fr) = RInt(0)
    /\ \/ (x_idx >= dom.nbl /\ x_idx <= dom.nx - dom.nbl - 1)
       \/ (y_idx >= dom.nbl /\ y_idx <= dom.ny - dom.nbl - 1)

\* pml_transform returning the two factors in the other order
pml_transform_swapped(dom, al, fr, x_idx, y_idx) ==
    <<s_tilde(sigma_y(dom, al, fr, y_idx), fr),
      s_tilde(sigma_x(dom, al, fr, x_idx), fr)>>

\* pml_transform(x_idx, y_idx) -> (s_tilde_x, s_tilde_y)
pml_transform(dom, al, fr, x_idx, y_idx) ==
    <<s_tilde(sigma_x(dom, al, fr, x_idx), fr),
      s_tilde(sigma_y(dom, al, fr, y_idx), fr)>>

\* ------------------------------------------------------------------------
\* assembler.py / assembly.py: assemble_fem_system
\* ------------------------------------------------------------------------

\* g = 1.0/np.sqrt(3.0); gauss_points = [[-g,-g],[g,-g],[g,g],[-g,g]]
gauss_points ==
    LET g == <<RInt(0), RInt(1)>>
        mg == <<RInt(0), RInt(-1)>>
    IN  [gp \in 0 .. 3 |->
            CASE gp = 0 -> <<mg, mg>>
              [] gp = 1 -> <<g, mg>>
              [] gp = 2 -> <<g, g>>
              [] OTHER -> <<mg, g>>]

\* gauss_weights = np.ones(4)
gauss_weights == [gp \in 0 .. 3 |-> Q3Int(1)]

\* np.dot of two arrays of length 4
dot(u, w) ==
    Q3Add(Q3Add(Q3Add(Q3Mul(u[0], w[0]), Q3Mul(u[1], w[1])),
                Q3Mul(u[2], w[2])),
          Q3Mul(u[3], w[3]))

\* nodes = [j*nx + i, j*nx + (i+1), (j+1)*nx + (i+1), (j+1)*nx + i]
fem_nodes(i, jj, nx) ==
    [a \in 0 .. 3 |->
        CASE a = 0 -> jj * nx + i
          [] a = 1 -> jj * nx + (i + 1)
          [] a = 2 -> (jj + 1) * nx + (i + 1)
          [] OTHER -> (jj + 1) * nx + i]

\* x_elem in clockwise order from the lower-right corner
fem_x_elem_mirrored(dom, i) ==
    [a \in 0 .. 3 |->
        Q3(IF a \in {1, 2} THEN dom.x_array[i] ELSE dom.x_array[i + 1])]

\* x_elem = [x[i], x[i+1], x[i+1], x[i]]
fem_x_elem(dom, i) ==
    [a \in 0 .. 3 |->
        Q3(IF a \in {1, 2} THEN dom.x_array[i + 1] ELSE dom.x_array[i])]

\* y_elem = [y[j], y[j], y[j+1], y[j+1]]
fem_y_elem(dom, jj) ==
    [a \in 0 .. 3 |->
        Q3(IF a \in {2, 3} THEN dom.y_array[jj + 1] ELSE dom.y_array[jj])]

\* source(x_gp, y_gp): the callable the caller passes, here one of two
\* stand-ins, the constant 1 and the ramp x + 2*y
source_at(src, x, y) ==
    IF src = "unit" THEN CReal(Q3Int(1))
    ELSE CReal(Q3Add(x, Q3Mul(Q3Int(2), y)))

\* min(max(int((c_gp - c[0]) / step), 0), num - 1)
sample_index(c_gp, c, step, num) ==
    Min(Max(int(Q3Div(Q3Sub(c_gp, Q3(c[0])), Q3(step))), 0), num - 1)

\* N, dN = elem.shape_functions(xi, eta), elem.shape_derivatives(xi, eta),
\* with the element's corner coordinates and the quadrature weight
fem_setup(v, dom, i, jj, point) ==
    [N |-> IF v = "Helmholtz_FEM"
           THEN shape_functions(gauss_points[point][1], gauss_points[point][2])
           ELSE Q1_shape_functions(gauss_points[point][1],
                                   gauss_points[point][2]),
     dN |-> IF v = "Helmholtz_FEM"
            THEN shape_derivatives(gauss_points[point][1],
                                   gauss_points[point][2])
            ELSE Q1_shape_derivatives(gauss_points[point][1],
                                      gauss_points[point][2]),
     x_elem |-> fem_x_elem(dom, i),
     y_elem |-> fem_y_elem(dom, jj),
     w |-> gauss_weights[point]]

\* J = [[dx_dxi, dx_deta], [dy_dxi, dy_deta]]
fem_jacobian(g) ==
    [dx_dxi |-> dot(g.dN.dN_dxi, g.x_elem),
     dx_deta |-> dot(g.dN.dN_deta, g.x_elem),
     dy_dxi |-> dot(g.dN.dN_dxi, g.y_elem),
     dy_deta |-> dot(g.dN.dN_deta, g.y_elem)]

\* detJ = np.linalg.det(J)
fem_det(J) == Q3Sub(Q3Mul(J.dx_dxi, J.dy_deta), Q3Mul(J.dx_deta, J.dy_dxi))

\* Jinv = np.linalg.inv(J), for detJ # 0
fem_inv(J, detJ) ==
    [i00 |-> Q3Div(J.dy_deta, detJ),
     i01 |-> Q3Div(Q3Neg(J.dx_deta), detJ),
     i10 |-> Q3Div(Q3Neg(J.dy_dxi), detJ),
     i11 |-> Q3Div(J.dx_dxi, detJ)]

\* x_gp = np.dot(N, x_elem); y_gp = np.dot(N, y_elem)
fem_point(g) == [x_gp |-> dot(g.N, g.x_elem), y_gp |-> dot(g.N, g.y_elem)]

\* i_gp, j_gp: the node whose velocity and PML values the point is given
fem_sample(dom, pt) ==
    [i_gp |-> sample_index(pt.x_gp, dom.x_array, dom.dx, dom.nx),
     j_gp |-> sample_index(pt.y_gp, dom.y_array, dom.dy, dom.ny)]

\* the body of the quadrature loop at Gauss point number point of element
\* (i, jj), up to the accumulation: the Jacobian, the sample index, and the
\* factors of the three accumulated terms; raised is the exception that
\* ended the pass, of np.linalg.inv refusing J (singular) or of pml_transform
fem_gp(v, dom, fr, vel, src, al, i, jj, point) ==
    Let(LAMBDA g :
    Let(LAMBDA J :
    Let(LAMBDA detJ :
        IF Q3Sign(detJ) = 0
        THEN [singular |-> TRUE, raised |-> "LinAlgError", detJ |-> detJ]
        ELSE
    Let(LAMBDA Jinv :
    Let(LAMBDA pt :
    Let(LAMBDA smp :
        IF pml_raises(dom, fr, smp.i_gp, smp.j_gp)
        THEN [singular |-> FALSE, raised |-> "ZeroDivisionError",
              detJ |-> detJ]
        ELSE
    Let(LAMBDA s :
        [singular |-> FALSE,
         raised |-> None,
         s |-> s,
         detJ |-> detJ,
         N |-> g.N,
         dN_dx |-> [a \in 0 .. 3 |->
                      Q3Add(Q3Mul(Jinv.i00, g.dN.dN_dxi[a]),
                            Q3Mul(Jinv.i01, g.dN.dN_deta[a]))],
         dN_dy |-> [a \in 0 .. 3 |->
                      Q3Add(Q3Mul(Jinv.i10, g.dN.dN_dxi[a]),
                            Q3Mul(Jinv.i11, g.dN.dN_deta[a]))],
         x_gp |-> pt.x_gp, y_gp |-> pt.y_gp,
         i_gp |-> smp.i_gp, j_gp |-> smp.j_gp,
         v_gp |-> vel[smp.i_gp][smp.j_gp],
         wdet |-> Q3Mul(g.w, detJ),
         sy_sx |-> CDiv(s[2], s[1]),
         sx_sy |-> CDiv(s[1], s[2]),
         k2sxsy |-> Let(LAMBDA k_gp : CScale(Q3(RMul(k_gp, k_gp)),
                                             CMul(s[1], s[2])),
                        RDiv(omega_of(fr), vel[smp.i_gp][smp.j_gp])),
         f_gp |-> source_at(src, pt.x_gp, pt.y_gp)],
        pml_transform(dom, al, fr, smp.i_gp, smp.j_gp)),
        fem_sample(dom, pt)),
        fem_point(g)),
        fem_inv(J, detJ)),
        fem_det(J)),
        fem_jacobian(g)),
        fem_setup(v, dom, i, jj, point))

\* Ke[a, b] += w*detJ*((sy/sx)*dN_dx[a]*dN_dx[b] + (sx/sy)*dN_dy[a]*dN_dy[b])
\* (at is the Gauss point's record, p and q the local indices a and b)
Ke_term(at, p, q) ==
    CScale(at.wdet,
           CAdd(CScale(Q3Mul(at.dN_dx[p], at.dN_dx[q]), at.sy_sx),
                CScale(Q3Mul(at.dN_dy[p], at.dN_dy[q]), at.sx_sy)))

\* Me[a, b] += w*detJ*(k_gp**2 * sx * sy * N[a] * N[b])
Me_term(at, p, q) ==
    CScale(at.wdet, CScale(Q3Mul(at.N[p], at.N[q]), at.k2sxsy))

\* Fe[a] += w*detJ*f_gp*N[a]
Fe_term(at, p) == CScale(Q3Mul(at.wdet, at.N[p]), at.f_gp)

\* the four passes of the quadrature loop, one after the other: each
\* pass's term is worked out and then added to what the earlier ones left
over_gauss(t) ==
    Let(LAMBDA term :
            CAdd(CAdd(CAdd(CAdd(CZero, term[1]), term[2]), term[3]), term[4]),
        <<t[0], t[1], t[2], t[3]>>)

\* pass number gp of the quadrature loop, out of the passes worked out
pass_at(passes, gp) == (CHOOSE pr \in passes : pr[1] = gp)[2]

\* Ke, Me, Fe of one element after the four passes of the quadrature loop,
\* with what each Gauss point sampled
fem_gather(passes, nodes) ==
    [singular |-> FALSE,
     raised |-> None,
     nodes |-> nodes,
     Ke |-> [la \in 0 .. 3 |-> [lb \in 0 .. 3 |->
               over_gauss([gp \in 0 .. 3 |->
                   Ke_term(pass_at(passes, gp), la, lb)])]],
     Me |-> [la \in 0 .. 3 |-> [lb \in 0 .. 3 |->
               over_gauss([gp \in 0 .. 3 |->
                   Me_term(pass_at(passes, gp), la, lb)])]],
     Fe |-> [la \in 0 .. 3 |->
               over_gauss([gp \in 0 .. 3 |->
                   Fe_term(pass_at(passes, gp), la)])],
     samples |-> [gp \in 0 .. 3 |->
               Let(LAMBDA at :
                       [x_gp |-> at.x_gp, y_gp |-> at.y_gp,
                        i_gp |-> at.i_gp, j_gp |-> at.j_gp,
                        v_gp |-> at.v_gp, s |-> at.s, detJ |-> at.detJ],
                   pass_at(passes, gp))]]

\* one element (i, jj) up to the global scatter, or what the first of its
\* Gauss points that raised has raised
fem_local(v, dom, fr, vel, src, al, i, jj) ==
    Let(LAMBDA passes :
            IF \E pr \in passes : pr[2].raised # None
            THEN Let(LAMBDA first :
                         [singular |-> pass_at(passes, first).singular,
                          raised |-> pass_at(passes, first).raised],
                     CHOOSE gp \in 0 .. 3 :
                         /\ pass_at(passes, gp).raised # None
                         /\ \A before \in 0 .. (gp - 1) :
                               pass_at(passes, before).raised = None)
            ELSE fem_gather(passes, fem_nodes(i, jj, dom.nx)),
        { <<gp, fem_gp(v, dom, fr, vel, src, al, i, jj, gp)>> :
            gp \in 0 .. 3 })

\* lil_matrix((nk, nk), dtype=complex)
czeros(nk) == [I \in 0 .. (nk - 1) |-> [J \in 0 .. (nk - 1) |-> CZero]]

\* np.zeros(nk, dtype=complex)
czeros1(nk) == [I \in 0 .. (nk - 1) |-> CZero]

\* mutant: the global entry is overwritten by the last element's
cadd_at_overwrite(G, I, J, z) == [G EXCEPT ![I][J] = z]

\* G[I, J] += z
cadd_at(G, I, J, z) == [G EXCEPT ![I][J] = CAdd(@, z)]

\* one pass of the inner loop of the global scatter, local pair q = 4*a + b:
\* K[A, B] += Ke[a, b]; M[A, B] += Me[a, b], after F[A] += Fe[a] when b = 0
fem_scatter_step(loc, q, KMF) ==
    LET a == q \div 4
        b == q % 4
        A == loc.nodes[a]
        B == loc.nodes[b]
    IN  [Kmat |-> cadd_at(KMF.Kmat, A, B, loc.Ke[a][b]),
         Mmat |-> cadd_at(KMF.Mmat, A, B, loc.Me[a][b]),
         Fvec |-> IF b = 0
                  THEN [KMF.Fvec EXCEPT ![A] = CAdd(@, loc.Fe[a])]
                  ELSE KMF.Fvec]

\* the global scatter: for a in range(4): F[A] += Fe[a];
\* for b in range(4): K[A, B] += Ke[a, b]; M[A, B] += Me[a, b]
\* (q = 4*a + b runs over the sixteen local pairs in loop order; each pass
\* of the outer loop makes the additions of its row, q to q + 3)
RECURSIVE fem_scatter(_, _, _)
fem_scatter(loc, q, KMF) ==
    IF q >= 16 THEN KMF
    ELSE Let(LAMBDA row : fem_scatter(loc, q + 4, row),
             fem_scatter_step(loc, q + 3,
                 fem_scatter_step(loc, q + 2,
                     fem_scatter_step(loc, q + 1,
                         fem_scatter_step(loc, q, KMF)))))

\* A = K - M: entry <<k, mm>> stands for k - (2*pi)^2 * mm
fem_A(Kmat, Mmat) ==
    [I \in DOMAIN Kmat |-> [J \in DOMAIN Kmat |-> <<Kmat[I][J], Mmat[I][J]>>]]

\* main.py of Helmholtz_FEM: np.ones((nx, ny)) * VELOCITY
velocity_uniform(dom) ==
    [i \in 0 .. (dom.nx - 1) |-> [jj \in 0 .. (dom.ny - 1) |-> <<3, 2>>]]

\* main.py of Helmholtz_interface_FEM: np.where(Y > 0.0, 1.5, 3.0)
velocity_interface(dom) ==
    [i \in 0 .. (dom.nx - 1) |-> [jj \in 0 .. (dom.ny - 1) |->
        IF RLt(RInt(0), dom.y_array[jj]) THEN <<3, 2>> ELSE <<3, 1>>]]

\* ------------------------------------------------------------------------
\* The Helmholtz run: domain, PML extension, velocity model, assembly
\* ------------------------------------------------------------------------

\* the variables of solve_mode, idle in a Helmholtz run
wvars == <<args, mesh, interior, Kii, Mii, kc_ana, sigma, k_req, eigsh_k,
           eigsh_ret, vals, vecs, idx, kc_list, j, kc_fem, vec, err>>

Variants == {"Helmholtz_FEM", "Helmholtz_interface"}

MainShapes == { <<1, 2>>, <<2, 1>>, <<2, 2>>, <<3, 2>> }

\* (xmin, xmax, ymin, ymax): the package's default, an off-centre
\* rectangle, and a rectangle of zero width
MainExtensions ==
    { << <<-1, 2>>, <<1, 2>>, <<-1, 2>>, <<1, 2>> >>,
      << <<0, 1>>, <<1, 1>>, <<0, 1>>, <<2, 1>> >>,
      << <<0, 1>>, <<0, 1>>, <<0, 1>>, <<1, 1>> >> }

MaxNbl == 1

\* (frequency, alpha, source)
Physics == { <<1, 1, "unit">>, <<2, 2, "ramp">> }

InitHelmholtz ==
    /\ scriptless
    /\ variant \in Variants
    /\ \E ms \in MainShapes, me \in MainExtensions :
          domain = HelmholtzDomain(ms, me)
    /\ nbl \in 0 .. MaxNbl
    /\ \E ph \in Physics :
          frequency = ph[1] /\ alpha = ph[2] /\ source = ph[3]
    /\ velocity_array = None
    /\ F = None /\ sampled = None
    /\ pc = "pml_domain"
    /\ raised = None
    /\ K = None /\ M = None /\ elem = None
    /\ result = None
    /\ kind = None /\ m = None /\ n = None
    /\ Nx = None /\ Ny = None /\ W = None /\ H = None /\ k_eigs = None
    /\ mesh = None
    /\ interior = None /\ Kii = None /\ Mii = None
    /\ kc_ana = None /\ sigma = None /\ k_req = None
    /\ eigsh_k = <<>>
    /\ eigsh_ret = None
    /\ vals = None /\ vecs = None /\ idx = None
    /\ kc_list = None /\ j = None /\ kc_fem = None /\ vec = None /\ err = None
    /\ xidle

\* domain.pml_domain(nbl)
PmlDomain ==
    /\ pc = "pml_domain"
    /\ \E r \in {pml_domain(variant, domain, nbl)} :
           /\ domain' = r.self
           /\ IF r.raised # None
              THEN raised' = r.raised /\ pc' = "failed"
              ELSE raised' = raised /\ pc' = "velocity"
    /\ pml_calls' = Append(pml_calls, nbl)
    /\ UNCHANGED <<wvars, xvars, script, level, h, records, built, K, M,
                   elem, result, variant, nbl, frequency, velocity_array,
                   source, alpha, F, sampled>>

\* main(): the velocity model over the extended grid
VelocityModel ==
    /\ pc = "velocity"
    /\ velocity_array' = IF variant = "Helmholtz_FEM"
                         THEN velocity_uniform(domain)
                         ELSE velocity_interface(domain)
    /\ pc' = "fem_init"
    /\ UNCHANGED <<wvars, yvars, xvars, raised, K, M, elem, result, variant, domain, nbl,
                   frequency, source, alpha, F, sampled>>

\* assemble_fem_system: K, M = lil_matrix((nk, nk)); F = np.zeros(nk)
FemInit ==
    /\ pc = "fem_init"
    /\ K' = czeros(domain.nx * domain.ny)
    /\ M' = czeros(domain.nx * domain.ny)
    /\ F' = czeros1(domain.nx * domain.ny)
    /\ elem' = 0
    /\ pc' = "fem_element"
    /\ UNCHANGED <<wvars, yvars, xvars, raised, result, variant, domain, nbl, frequency,
                   velocity_array, source, alpha, sampled>>

\* assemble_fem_system: one pass of the element loops, element number elem
\* being (i, j) = (elem mod (nx-1), elem div (nx-1))
FemElement ==
    /\ pc = "fem_element"
    /\ elem < (domain.nx - 1) * (domain.ny - 1)
    /\ \E loc \in {fem_local(variant, domain, frequency, velocity_array,
                           source, alpha, elem % (domain.nx - 1),
                           elem \div (domain.nx - 1))} :
           IF loc.raised # None
           THEN /\ raised' = loc.raised
                /\ pc' = "failed"
                /\ UNCHANGED <<K, M, F, elem, sampled>>
           ELSE LET KMF == fem_scatter(loc, 0,
                               [Kmat |-> K, Mmat |-> M, Fvec |-> F])
                IN  /\ K' = KMF.Kmat
                    /\ M' = KMF.Mmat
                    /\ F' = KMF.Fvec
                    /\ sampled' = loc.samples
                    /\ elem' = elem + 1
                    /\ UNCHANGED <<pc, raised>>
    /\ UNCHANGED <<wvars, yvars, xvars, result, variant, domain, nbl, frequency,
                   velocity_array, source, alpha>>

\* assemble_fem_system: A = K - M; return A.tocsr(), F
FemReturn ==
    /\ pc = "fem_element"
    /\ elem >= (domain.nx - 1) * (domain.ny - 1)
    /\ result' = [A |-> fem_A(K, M), F |-> F]
    /\ pc' = "fem_returned"
    /\ UNCHANGED <<wvars, yvars, xvars, raised, K, M, elem, variant, domain, nbl,
                   frequency, velocity_array, source, alpha, F, sampled>>

\* ------------------------------------------------------------------------
\* solver.py: solve_helmholtz_fem
\* ------------------------------------------------------------------------

\* U = spsolve(A, F): entry k is the value of unknown k, the one row k of A
\* and F[k] belong to; the value itself is not worked out
spsolve(A, b) == [k \in DOMAIN b |-> <<"U", k>>]

\* a.reshape((rows, cols)) of a flat array, in C order
np_reshape(a, rows, cols) ==
    [r \in 0 .. (rows - 1) |-> [c \in 0 .. (cols - 1) |-> a[r * cols + c]]]

\* mutant: the array is not transposed
np_T_identity(a, rows, cols) == a

\* a.T of an array of shape (rows, cols)
np_T(a, rows, cols) ==
    [c \in 0 .. (cols - 1) |-> [r \in 0 .. (rows - 1) |-> a[r][c]]]

\* X, Y = np.meshgrid(x, y, indexing='ij')
np_meshgrid_ij(x, y) ==
    [X |-> [i \in DOMAIN x |-> [jj \in DOMAIN y |-> x[i]]],
     Y |-> [i \in DOMAIN x |-> [jj \in DOMAIN y |-> y[jj]]]]

\* source(X, Y) on arrays: elementwise
source_on(src, XY) ==
    [i \in DOMAIN XY.X |-> [jj \in DOMAIN XY.X[i] |->
        source_at(src, Q3(XY.X[i][jj]), Q3(XY.Y[i][jj]))]]

SolverShapes == { <<2, 2>>, <<3, 2>>, <<2, 3>> }

\* (xmin, xmax, ymin, ymax)
SolverExtensions ==
    { << <<-1, 2>>, <<1, 2>>, <<-1, 2>>, <<1, 2>> >>,
      << <<0, 1>>, <<1, 1>>, <<0, 1>>, <<2, 1>> >> }

\* (frequency, alpha, source); at frequency 0 the run is made without
\* layers, where every sigma is the float 0.0
SolverPhysics == { <<1, 1, "unit">>, <<2, 2, "ramp">>, <<0, 1, "unit">> }

\* main(): the domain and the arguments of solve_helmholtz_fem
InitSolver ==
    /\ scriptless
    /\ variant \in Variants
    /\ \E ms \in SolverShapes, me \in SolverExtensions :
          domain = HelmholtzDomain(ms, me)
    /\ nbl \in 0 .. MaxNbl
    /\ \E ph \in SolverPhysics :
          frequency = ph[1] /\ alpha = ph[2] /\ source = ph[3]
    /\ frequency = 0 => nbl = 0
    /\ velocity_array = None
    /\ F = None /\ sampled = None
    /\ pc = "pml_domain"
    /\ raised = None
    /\ K = None /\ M = None /\ elem = None
    /\ result = None
    /\ kind = None /\ m = None /\ n = None
    /\ Nx = None /\ Ny = None /\ W = None /\ H = None /\ k_eigs = None
    /\ mesh = None
    /\ interior = None /\ Kii = None /\ Mii = None
    /\ kc_ana = None /\ sigma = None /\ k_req = None
    /\ eigsh_k = <<>>
    /\ eigsh_ret = None
    /\ vals = None /\ vecs = None /\ idx = None
    /\ kc_list = None /\ j = None /\ kc_fem = None /\ vec = None /\ err = None
    /\ xidle

\* U = spsolve(A, F)
Spsolve ==
    /\ pc = "fem_returned"
    /\ U' = spsolve(result.A, result.F)
    /\ pc' = "reshape"
    /\ UNCHANGED <<wvars, yvars, hvars, raised, K, M, elem, result, svars, xi_eta, u_2d,
                   source_2d>>

\* u_2d = U.reshape((domain.ny, domain.nx)).T
Reshape ==
    /\ pc = "reshape"
    /\ u_2d' = np_T(np_reshape(U, domain.ny, domain.nx), domain.ny, domain.nx)
    /\ pc' = "solve_return"
    /\ UNCHANGED <<wvars, yvars, hvars, raised, K, M, elem, result, svars, xi_eta, U,
                   source_2d>>

\* Helmholtz_FEM: X, Y = np.meshgrid(...); source_2d = source(X, Y);
\* return u_2d, source_2d.  Helmholtz_interface_FEM: return u_2d, A.shape[0]
SolveReturn ==
    /\ pc = "solve_return"
    /\ IF variant = "Helmholtz_FEM"
       THEN /\ source_2d' = source_on(source, np_meshgrid_ij(domain.x_array,
                                                            domain.y_array))
            /\ result' = <<u_2d, source_2d'>>
       ELSE /\ source_2d' = source_2d
            /\ result' = <<u_2d, domain.nx * domain.ny>>
    /\ pc' = "solve_returned"
    /\ UNCHANGED <<wvars, yvars, hvars, raised, K, M, elem, svars, xi_eta, U, u_2d>>

\* main() of Helmholtz_interface_FEM: source_array = src(X, Y)
SourceArray ==
    /\ pc = "solve_returned"
    /\ variant = "Helmholtz_interface"
    /\ source_2d' = source_on(source, np_meshgrid_ij(domain.x_array,
                                                     domain.y_array))
    /\ pc' = "source_array"
    /\ UNCHANGED <<wvars, yvars, hvars, raised, K, M, elem, result, svars, xi_eta, U,
                   u_2d>>

NextSolver ==
    \/ PmlDomain
    \/ VelocityModel
    \/ FemInit
    \/ FemElement
    \/ FemReturn
    \/ Spsolve
    \/ Reshape
    \/ SolveReturn
    \/ SourceArray

SpecSolver == InitSolver /\ [][NextSolver]_vars

\* ------------------------------------------------------------------------
\* assemble_K_M(coords, elems) called on its own
\* ------------------------------------------------------------------------

\* the element lists a caller passes over the nodes of a generated grid:
\* the generated triangles, those with one more triangle in front or at the
\* end, or two triangles alone
ElemsInputs(Tri) ==
    {Tri}
    \cup {PyConcat([q \in {0} |-> t], Tri) : t \in ExtraTris}
    \cup {PyAppend(Tri, t) : t \in ExtraTris}
    \cup {[q \in {0, 1} |-> IF q = 0 THEN t1 ELSE t2] :
              t1 \in ExtraTris, t2 \in ExtraTris}

\* Xy, Tri, h = rect_mesh(Nx, Ny, W, H); assemble_K_M(Xy, elems) is about to
\* run (pc = "boundary" is then the point where it has returned)
InitAssemble ==
    /\ scriptless
    /\ Nx \in DirectSizes
    /\ Ny \in DirectSizes
    /\ W \in DirectLengths
    /\ H \in DirectLengths
    /\ kind = None /\ m = None /\ n = None /\ k_eigs = None
    /\ pc = "assemble_init"
    /\ raised = None
    /\ \E el \in ElemsInputs(rect_mesh(Nx, Ny, W, H).Tri) :
          mesh = [Xy |-> rect_mesh(Nx, Ny, W, H).Xy, Tri |-> el,
                  h |-> rect_mesh(Nx, Ny, W, H).h]
    /\ K = None /\ M = None /\ elem = None
    /\ interior = None /\ Kii = None /\ Mii = None
    /\ kc_ana = None /\ sigma = None /\ k_req = None
    /\ eigsh_k = <<>>
    /\ eigsh_ret = None
    /\ vals = None /\ vecs = None /\ idx = None
    /\ kc_list = None /\ j = None /\ kc_fem = None /\ vec = None /\ err = None
    /\ result = None
    /\ variant = None /\ domain = None /\ nbl = None
    /\ frequency = None /\ velocity_array = None /\ source = None
    /\ alpha = None /\ F = None /\ sampled = None
    /\ xidle

\* either assembler, each on its own run
NextAssemblers ==
    \/ AssembleInit
    \/ AssembleElement
    \/ AssembleReturn
    \/ PmlDomain
    \/ VelocityModel
    \/ FemInit
    \/ FemElement
    \/ FemReturn

InitAssemblers == InitAssemble \/ InitHelmholtz

SpecAssemblers == InitAssemblers /\ [][NextAssemblers]_vars

\* ------------------------------------------------------------------------
\* elements.py: shape_functions and shape_derivatives called on their own
\* ------------------------------------------------------------------------

\* the coordinates xi and eta are drawn from: the corners, the centre,
\* interior points and the Gauss abscissae -1/sqrt(3) and 1/sqrt(3)
RefCoords ==
    { Q3Int(-1), Q3(RNorm(-1, 2)), Q3Int(0), Q3(RNorm(1, 3)), Q3Int(1),
      <<RInt(0), RInt(-1)>>, <<RInt(0), RInt(1)>> }

\* variant names the package whose element class is called:
\* BilinearElement (Helmholtz_FEM) or Q1 (Helmholtz_interface)
InitElements ==
    /\ scriptless
    /\ variant \in Variants
    /\ xi_eta \in RefCoords \X RefCoords
    /\ U = None /\ u_2d = None /\ source_2d = None
    /\ locals = None /\ progress = None /\ order = None
    /\ pc = "element"
    /\ raised = None
    /\ result = None
    /\ domain = None /\ nbl = None
    /\ frequency = None /\ velocity_array = None /\ source = None
    /\ alpha = None /\ F = None /\ sampled = None
    /\ K = None /\ M = None /\ elem = None
    /\ kind = None /\ m = None /\ n = None
    /\ Nx = None /\ Ny = None /\ W = None /\ H = None /\ k_eigs = None
    /\ mesh = None
    /\ interior = None /\ Kii = None /\ Mii = None
    /\ kc_ana = None /\ sigma = None /\ k_req = None
    /\ eigsh_k = <<>>
    /\ eigsh_ret = None
    /\ vals = None /\ vecs = None /\ idx = None
    /\ kc_list = None /\ j = None /\ kc_fem = None /\ vec = None /\ err = None

\* N = shape_functions(xi, eta)
ShapeFunctions ==
    /\ pc = "element"
    /\ result' = IF variant = "Helmholtz_FEM"
                 THEN shape_functions(xi_eta[1], xi_eta[2])
                 ELSE Q1_shape_functions(xi_eta[1], xi_eta[2])
    /\ pc' = "shape_functions_returned"
    /\ UNCHANGED <<wvars, yvars, xvars, raised, K, M, elem, variant, domain, nbl,
                   frequency, velocity_array, source, alpha, F, sampled>>

\* dN_dxi, dN_deta = shape_derivatives(xi, eta)
ShapeDerivatives ==
    /\ pc = "element"
    /\ result' = IF variant = "Helmholtz_FEM"
                 THEN shape_derivatives(xi_eta[1], xi_eta[2])
                 ELSE Q1_shape_derivatives(xi_eta[1], xi_eta[2])
    /\ pc' = "shape_derivatives_returned"
    /\ UNCHANGED <<wvars, yvars, xvars, raised, K, M, elem, variant, domain, nbl,
                   frequency, velocity_array, source, alpha, F, sampled>>

NextElements == ShapeFunctions \/ ShapeDerivatives

SpecElements == InitElements /\ [][NextElements]_vars

\* ------------------------------------------------------------------------
\* The global scatter of both assemblers with the elements taken in any
\* order: each element adds its local pairs in the loops' order, the
\* elements in any order, and the additions of up to MaxInterleaved
\* elements may alternate
\* ------------------------------------------------------------------------

MaxInterleaved == 2

\* no element has added anything
order_none == [first |-> -1, mixed |-> FALSE]

\* element e adds a pair: remember the first element and whether another
\* element was part-way through its pairs (last is the number of pairs)
order_after(e, last) ==
    [first |-> IF order.first = -1 THEN e ELSE order.first,
     mixed |-> \/ order.mixed
               \/ \E o \in DOMAIN progress \ {e} :
                     0 < progress[o] /\ progress[o] < last]

\* assemble_K_M(Xy, Tri) on a generated mesh, alone or with one more
\* triangle at the end
InitScatterTri ==
    /\ scriptless
    /\ Nx \in DirectSizes
    /\ Ny = 2
    /\ W \in {1, 16}
    /\ H = 1
    /\ kind = None /\ m = None /\ n = None /\ k_eigs = None
    /\ pc = "assemble_init"
    /\ raised = None
    /\ \E el \in {rect_mesh(Nx, Ny, W, H).Tri}
                  \cup {PyAppend(rect_mesh(Nx, Ny, W, H).Tri, t) :
                            t \in ExtraTris} :
          /\ mesh = [Xy |-> rect_mesh(Nx, Ny, W, H).Xy, Tri |-> el,
                     h |-> rect_mesh(Nx, Ny, W, H).h]
          /\ progress = [e \in DOMAIN el |-> 0]
    /\ order = order_none
    /\ locals = None
    /\ K = None /\ M = None /\ elem = None
    /\ interior = None /\ Kii = None /\ Mii = None
    /\ kc_ana = None /\ sigma = None /\ k_req = None
    /\ eigsh_k = <<>>
    /\ eigsh_ret = None
    /\ vals = None /\ vecs = None /\ idx = None
    /\ kc_list = None /\ j = None /\ kc_fem = None /\ vec = None /\ err = None
    /\ result = None
    /\ variant = None /\ domain = None /\ nbl = None
    /\ frequency = None /\ velocity_array = None /\ source = None
    /\ alpha = None /\ F = None /\ sampled = None
    /\ xi_eta = None /\ U = None /\ u_2d = None /\ source_2d = None

ScatterShapes == { <<3, 2>>, <<3, 3>> }

\* assemble_fem_system on a grid without layers
InitScatterQuad ==
    /\ scriptless
    /\ variant \in Variants
    /\ \E ms \in ScatterShapes, me \in SolverExtensions :
          /\ domain = HelmholtzDomain(ms, me)
          /\ progress = [e \in 0 .. ((ms[1] - 1) * (ms[2] - 1) - 1) |-> 0]
    /\ nbl = 0
    /\ \E ph \in Physics :
          frequency = ph[1] /\ alpha = ph[2] /\ source = ph[3]
    /\ order = order_none
    /\ locals = None
    /\ velocity_array = None
    /\ F = None /\ sampled = None
    /\ pc = "pml_domain"
    /\ raised = None
    /\ K = None /\ M = None /\ elem = None
    /\ result = None
    /\ kind = None /\ m = None /\ n = None
    /\ Nx = None /\ Ny = None /\ W = None /\ H = None /\ k_eigs = None
    /\ mesh = None
    /\ interior = None /\ Kii = None /\ Mii = None
    /\ kc_ana = None /\ sigma = None /\ k_req = None
    /\ eigsh_k = <<>>
    /\ eigsh_ret = None
    /\ vals = None /\ vecs = None /\ idx = None
    /\ kc_list = None /\ j = None /\ kc_fem = None /\ vec = None /\ err = None
    /\ xi_eta = None /\ U = None /\ u_2d = None /\ source_2d = None

\* the loop bodies up to the scatter: every triangle's Ke and Me, or that
\* the triangle is skipped as degenerate
LocalsTri ==
    /\ pc = "assemble"
    /\ locals' = [e \in DOMAIN mesh.Tri |->
                    IF degenerate(mesh.Xy, mesh.Tri[e])
                    THEN [skipped |-> TRUE, ids |-> mesh.Tri[e]]
                    ELSE [skipped |-> FALSE, ids |-> mesh.Tri[e],
                          Ke |-> Ke(mesh.Xy, mesh.Tri[e]),
                          Me |-> Me(mesh.Xy, mesh.Tri[e])]]
    /\ pc' = "scatter_tri"
    /\ UNCHANGED <<wvars, yvars, hvars, raised, K, M, elem, result, xi_eta, U, u_2d,
                   source_2d, progress, order>>

\* some triangle adds its next local pair (a degenerate one is skipped)
ScatterTriEntry ==
    /\ pc = "scatter_tri"
    /\ Cardinality(DOMAIN progress) <= MaxInterleaved
    /\ \E e \in DOMAIN progress :
          /\ progress[e] < 9
          /\ IF locals[e].skipped
             THEN /\ K' = K /\ M' = M
                  /\ progress' = [progress EXCEPT ![e] = 9]
                  /\ order' = order
             ELSE \E KM \in {scatter_step(locals[e].ids, locals[e].Ke,
                                          locals[e].Me, progress[e],
                                          [Kmat |-> K, Mmat |-> M])} :
                      /\ K' = KM.Kmat /\ M' = KM.Mmat
                      /\ progress' = [progress EXCEPT ![e] = @ + 1]
                      /\ order' = order_after(e, 9)
    /\ UNCHANGED <<wvars, yvars, hvars, pc, raised, elem, result, xi_eta, U, u_2d,
                   source_2d, locals>>

\* some triangle that has not begun makes its whole pass of the loop
ScatterTriElement ==
    /\ pc = "scatter_tri"
    /\ \E e \in DOMAIN progress :
          /\ progress[e] = 0
          /\ IF locals[e].skipped
             THEN K' = K /\ M' = M
             ELSE \E KM \in {scatter(locals[e].ids, locals[e].Ke,
                                     locals[e].Me, 0,
                                     [Kmat |-> K, Mmat |-> M])} :
                      K' = KM.Kmat /\ M' = KM.Mmat
          /\ progress' = [progress EXCEPT ![e] = 9]
          /\ order' = order_after(e, 9)
    /\ UNCHANGED <<wvars, yvars, hvars, pc, raised, elem, result, xi_eta, U, u_2d,
                   source_2d, locals>>

\* the loop bodies up to the scatter: every cell's Ke, Me and Fe
LocalsQuad ==
    /\ pc = "fem_element"
    /\ locals' = [e \in DOMAIN progress |->
                    fem_local(variant, domain, frequency, velocity_array,
                              source, alpha, e % (domain.nx - 1),
                              e \div (domain.nx - 1))]
    /\ pc' = "scatter_quad"
    /\ UNCHANGED <<wvars, yvars, hvars, raised, K, M, elem, result, xi_eta, U, u_2d,
                   source_2d, progress, order>>

\* some cell adds its next local pair
ScatterQuadEntry ==
    /\ pc = "scatter_quad"
    /\ Cardinality(DOMAIN progress) <= MaxInterleaved
    /\ \E e \in DOMAIN progress :
          /\ progress[e] < 16
          /\ \E KMF \in {fem_scatter_step(locals[e], progress[e],
                              [Kmat |-> K, Mmat |-> M, Fvec |-> F])} :
                /\ K' = KMF.Kmat /\ M' = KMF.Mmat /\ F' = KMF.Fvec
          /\ progress' = [progress EXCEPT ![e] = @ + 1]
          /\ order' = order_after(e, 16)
    /\ UNCHANGED <<wvars, yvars, pc, raised, elem, result, variant, domain, nbl,
                   frequency, velocity_array, source, alpha, sampled,
                   xi_eta, U, u_2d, source_2d, locals>>

\* some cell that has not begun makes its whole pass of the loops
ScatterQuadElement ==
    /\ pc = "scatter_quad"
    /\ \E e \in DOMAIN progress :
          /\ progress[e] = 0
          /\ \E KMF \in {fem_scatter(locals[e], 0,
                              [Kmat |-> K, Mmat |-> M, Fvec |-> F])} :
                /\ K' = KMF.Kmat /\ M' = KMF.Mmat /\ F' = KMF.Fvec
          /\ progress' = [progress EXCEPT ![e] = 16]
          /\ order' = order_after(e, 16)
    /\ UNCHANGED <<wvars, yvars, pc, raised, elem, result, variant, domain, nbl,
                   frequency, velocity_array, source, alpha, sampled,
                   xi_eta, U, u_2d, source_2d, locals>>

\* every element has added all its pairs
ScatterReturn ==
    /\ \/ pc = "scatter_tri" /\ \A e \in DOMAIN progress : progress[e] = 9
       \/ pc = "scatter_quad" /\ \A e \in DOMAIN progress : progress[e] = 16
    /\ pc' = "scattered"
    /\ UNCHANGED <<wvars, yvars, hvars, xvars, raised, K, M, elem, result>>

\* the stages before the scatter leave its state alone
NextScatter ==
    \/ AssembleInit
    \/ PmlDomain
    \/ VelocityModel
    \/ FemInit
    \/ LocalsTri
    \/ LocalsQuad
    \/ ScatterTriEntry
    \/ ScatterTriElement
    \/ ScatterQuadEntry
    \/ ScatterQuadElement
    \/ ScatterReturn

InitScatter == InitScatterTri \/ InitScatterQuad

SpecScatter == InitScatter /\ [][NextScatter]_vars

\* ------------------------------------------------------------------------
\* The convergence scripts: Refinamiento_de_malla.py and
\* modes_convergence_TE.py call solve_mode("TE", 1, 0, Nx, Ny, W, H) once
\* per refinement level and store a mesh size h with what it returned.
\* The guide keeps its 2:1 aspect and the lists their first, coarsest
\* levels.  With "TE" and meshes of six nodes or more k_req is positive,
\* so that eigsh is never refused its k.
\* ------------------------------------------------------------------------

\* W, H = 1.0, 0.5
ScriptExtent == <<48, 24>>

\* N_list = [8, 12, 16, ...]
N_list == <<4, 6>>

\* REF_LEVELS = [(4,3), (8,6), ...]
REF_LEVELS == << <<3, 2>>, <<4, 3>> >>

Scripts == {"Refinamiento_de_malla", "modes_convergence_TE"}

script_levels(sc) ==
    IF sc = "Refinamiento_de_malla" THEN Len(N_list) ELSE Len(REF_LEVELS)

\* a call of solve_mode("TE", 1, 0, nx, ny, w, hh): a fresh frame
solve_mode_called(nx, ny, w, hh) ==
    /\ kind' = <<"T", "E">> /\ m' = 1 /\ n' = 0
    /\ Nx' = nx /\ Ny' = ny /\ W' = w /\ H' = hh
    /\ k_eigs' = 12
    /\ pc' = "rect_mesh"
    /\ raised' = None
    /\ mesh' = None
    /\ K' = None /\ M' = None /\ elem' = None
    /\ interior' = None /\ Kii' = None /\ Mii' = None
    /\ kc_ana' = None /\ sigma' = None /\ k_req' = None
    /\ eigsh_k' = <<>>
    /\ eigsh_ret' = None
    /\ vals' = None /\ vecs' = None /\ idx' = None
    /\ kc_list' = None /\ j' = None /\ kc_fem' = None /\ vec' = None
    /\ err' = None
    /\ result' = None

InitScripts ==
    /\ script \in Scripts
    /\ level = 0
    /\ h = None
    /\ records = <<>>
    /\ built = 0
    /\ pml_calls = <<>>
    /\ pc = "script_loop"
    /\ raised = None
    /\ kind = None /\ m = None /\ n = None
    /\ Nx = None /\ Ny = None /\ W = None /\ H = None /\ k_eigs = None
    /\ mesh = None
    /\ K = None /\ M = None /\ elem = None
    /\ interior = None /\ Kii = None /\ Mii = None
    /\ kc_ana = None /\ sigma = None /\ k_req = None
    /\ eigsh_k = <<>>
    /\ eigsh_ret = None
    /\ vals = None /\ vecs = None /\ idx = None
    /\ kc_list = None /\ j = None /\ kc_fem = None /\ vec = None /\ err = None
    /\ result = None
    /\ variant = None /\ domain = None /\ nbl = None
    /\ frequency = None /\ velocity_array = None /\ source = None
    /\ alpha = None /\ F = None /\ sampled = None
    /\ xidle

\* Refinamiento_de_malla.py, one pass of "for N in N_list" up to the call:
\* Nx, Ny = N, int(N*H/W); h = max(W/Nx, H/Ny); solve_mode("TE", *modo, ...)
RefinamientoPass ==
    /\ script = "Refinamiento_de_malla"
    /\ pc = "script_loop"
    /\ level < Len(N_list)
    /\ LET nx == N_list[level + 1]
           ny == (N_list[level + 1] * ScriptExtent[2]) \div ScriptExtent[1]
       IN  /\ h' = RMax(RNorm(ScriptExtent[1], nx), RNorm(ScriptExtent[2], ny))
           /\ solve_mode_called(nx, ny, ScriptExtent[1], ScriptExtent[2])
    /\ built' = 0
    /\ UNCHANGED <<script, level, records, pml_calls>>
    /\ UNCHANGED hvars
    /\ UNCHANGED xvars

\* modes_convergence_TE.py, one pass of "for (Nx, Ny) in REF_LEVELS" up to
\* the call: Xy, Tri, h = rect_mesh(Nx, Ny, W, H); solve_mode(KIND, m, n, ...)
ConvergencePass ==
    /\ script = "modes_convergence_TE"
    /\ pc = "script_loop"
    /\ level < Len(REF_LEVELS)
    /\ LET nx == REF_LEVELS[level + 1][1]
           ny == REF_LEVELS[level + 1][2]
       IN  /\ h' = rect_mesh(nx, ny, ScriptExtent[1], ScriptExtent[2]).h
           /\ solve_mode_called(nx, ny, ScriptExtent[1], ScriptExtent[2])
    /\ built' = 1
    /\ UNCHANGED <<script, level, records, pml_calls>>
    /\ UNCHANGED hvars
    /\ UNCHANGED xvars

\* solve_mode has returned: h_list.append(h); err_list.append(err/100.0),
\* or records.append({"Nx": Nx, "Ny": Ny, "h": h, ..., "Xy": Xy, "Tri": Tri})
ScriptRecord ==
    /\ script \in Scripts
    /\ pc = "returned"
    /\ records' = Append(records,
                    IF script = "Refinamiento_de_malla"
                    THEN [h |-> h, err |-> RDiv(result.err, RInt(100))]
                    ELSE [Nx |-> Nx, Ny |-> Ny, h |-> h,
                          kc_fem |-> result.kc_fem, kc_ana |-> result.kc_ana,
                          err_pct |-> result.err, Xy |-> result.Xy,
                          Tri |-> result.Tri, vec |-> result.vec])
    /\ level' = level + 1
    /\ pc' = "script_loop"
    /\ UNCHANGED <<script, h, built, pml_calls>>
    /\ UNCHANGED hvars
    /\ UNCHANGED xvars
    /\ UNCHANGED <<args, raised, mesh, K, M, elem, interior, Kii, Mii,
                   kc_ana, sigma, k_req, eigsh_k, eigsh_ret, vals, vecs, idx,
                   kc_list, j, kc_fem, vec, err, result>>

\* records.sort(key=lambda r: r["h"], reverse=True): coarsest first, equal
\* sizes in the order they were stored
sort_by_h(recs) ==
    LET before(q1, q2) ==
            \/ RLt(recs[q2].h, recs[q1].h)
            \/ recs[q1].h = recs[q2].h /\ q1 < q2
        rank(q) == Cardinality({q1 \in DOMAIN recs : before(q1, q)})
    IN  [p \in DOMAIN recs |-> CHOOSE q \in DOMAIN recs : rank(q) = p - 1]

\* the loop is over: the lists become arrays, or the records are sorted
ScriptEnd ==
    /\ script \in Scripts
    /\ pc = "script_loop"
    /\ level >= script_levels(script)
    /\ records' = IF script = "Refinamiento_de_malla" THEN records
                  ELSE [p \in DOMAIN records |->
                           records[sort_by_h(records)[p]]]
    /\ pc' = "script_done"
    /\ UNCHANGED <<script, level, h, built, pml_calls>>
    /\ UNCHANGED hvars
    /\ UNCHANGED xvars
    /\ UNCHANGED <<args, raised, mesh, K, M, elem, interior, Kii, Mii,
                   kc_ana, sigma, k_req, eigsh_k, eigsh_ret, vals, vecs, idx,
                   kc_list, j, kc_fem, vec, err, result>>

NextScripts ==
    \/ RefinamientoPass
    \/ ConvergencePass
    \/ RectMesh
    \/ AssembleInit
    \/ AssembleElement
    \/ AssembleReturn
    \/ Boundary
    \/ Reduce
    \/ Shift
    \/ EigshReturns
    \/ EigshFails
    \/ Argsort
    \/ Select
    \/ Expand
    \/ SignNormalise
    \/ Return
    \/ ScriptRecord
    \/ ScriptEnd

SpecScripts == InitScripts /\ [][NextScripts]_vars

\* ------------------------------------------------------------------------
\* pml_domain called again and again on one HelmholtzDomain, up to MaxCalls
\* times; a caller may go on after a call that raised
\* ------------------------------------------------------------------------

MaxCalls == 3

InitDomain ==
    /\ script = None /\ level = None /\ h = None /\ records = None
    /\ built = 0
    /\ pml_calls = <<>>
    /\ variant \in Variants
    /\ \E ms \in MainShapes, me \in MainExtensions :
          domain = HelmholtzDomain(ms, me)
    /\ nbl = None
    /\ frequency = None /\ alpha = None /\ source = None
    /\ velocity_array = None
    /\ F = None /\ sampled = None
    /\ pc = "domain"
    /\ raised = None
    /\ K = None /\ M = None /\ elem = None
    /\ result = None
    /\ kind = None /\ m = None /\ n = None
    /\ Nx = None /\ Ny = None /\ W = None /\ H = None /\ k_eigs = None
    /\ mesh = None
    /\ interior = None /\ Kii = None /\ Mii = None
    /\ kc_ana = None /\ sigma = None /\ k_req = None
    /\ eigsh_k = <<>>
    /\ eigsh_ret = None
    /\ vals = None /\ vecs = None /\ idx = None
    /\ kc_list = None /\ j = None /\ kc_fem = None /\ vec = None /\ err = None
    /\ xidle

\* domain.pml_domain(nb)
PmlDomainCall ==
    /\ pc \in {"domain", "pml_returned", "pml_raised"}
    /\ Len(pml_calls) < MaxCalls
    /\ \E nb \in 0 .. MaxNbl :
          \E r \in {pml_domain(variant, domain, nb)} :
             /\ domain' = r.self
             /\ nbl' = nb
             /\ pml_calls' = Append(pml_calls, nb)
             /\ raised' = r.raised
             /\ pc' = IF r.raised = None THEN "pml_returned" ELSE "pml_raised"
    /\ UNCHANGED <<wvars, xvars, script, level, h, records, built, K, M,
                   elem, result, variant, frequency, velocity_array, source,
                   alpha, F, sampled>>

NextDomain == PmlDomainCall

SpecDomain == InitDomain /\ [][NextDomain]_vars

\* ------------------------------------------------------------------------
\* Stages reached
\* ------------------------------------------------------------------------

MeshErrors == {"ValueError: linspace", "ZeroDivisionError"}

EigshErrors == {"ValueError: eigsh k", "ArpackError"}

\* rect_mesh has returned its triple
mesh_returned == pc # "rect_mesh" /\ raised \notin MeshErrors

\* rect_mesh has just returned its triple to solve_mode
mesh_just_returned == pc = "assemble_init"

\* the boundary stage has set interior
interior_set ==
    \/ pc \in {"reduce", "shift", "eigsh", "argsort", "select", "expand",
               "sign", "error", "returned"}
    \/ pc = "failed" /\ raised \in EigshErrors

\* Kii and Mii have been extracted
reduced == interior_set /\ pc # "reduce"

\* the eigenpairs have been sorted and one selected
selected == pc \in {"expand", "sign", "error", "returned"}

\* ------------------------------------------------------------------------
\* Claims
\* ------------------------------------------------------------------------

\* C1: for Nx >= 2 and Ny >= 2 rect_mesh returns Nx*Ny nodes and exactly
\* 2*(Nx-1)*(Ny-1) triangles, and every node index of every triangle lies
\* in [0, Nx*Ny).
C1_MeshCounts ==
    (mesh_just_returned /\ Nx >= 2 /\ Ny >= 2) =>
        /\ DOMAIN mesh.Xy = 0 .. (Nx * Ny - 1)
        /\ DOMAIN mesh.Tri = 0 .. (2 * (Nx - 1) * (Ny - 1) - 1)
        /\ \A t \in DOMAIN mesh.Tri : \A c \in 1 .. 3 :
              mesh.Tri[t][c] \in 0 .. (Nx * Ny - 1)

C1_Witness == mesh_just_returned /\ Nx >= 3 /\ Ny >= 3 /\ Nx # Ny

\* C2: every cell (i, jj), 0 <= i < Nx-1, 0 <= jj < Ny-1, gives exactly the
\* two triangles [n00, n10, n11] and [n00, n11, n01] (the same lower-left to
\* upper-right diagonal everywhere), and no other triangle is emitted.
C2_SameDiagonal ==
    mesh_just_returned =>
        LET Tri == mesh.Tri
            cells == (0 .. (Nx - 2)) \X (0 .. (Ny - 2))
            lower(c) == <<c[2] * Nx + c[1], c[2] * Nx + c[1] + 1,
                          (c[2] + 1) * Nx + c[1] + 1>>
            upper_(c) == <<c[2] * Nx + c[1], (c[2] + 1) * Nx + c[1] + 1,
                           (c[2] + 1) * Nx + c[1]>>
        IN  /\ PyLen(Tri) = 2 * Cardinality(cells)
            /\ \A c \in cells :
                  /\ Cardinality({t \in DOMAIN Tri : Tri[t] = lower(c)}) = 1
                  /\ Cardinality({t \in DOMAIN Tri : Tri[t] = upper_(c)}) = 1
            /\ \A t \in DOMAIN Tri :
                  \E c \in cells : Tri[t] \in {lower(c), upper_(c)}

C2_Witness == mesh_just_returned /\ Nx >= 3 /\ Ny >= 3 /\ PyLen(mesh.Tri) >= 8

\* C3: the node at grid position (i, jj) has global index jj*Nx + i and
\* coordinates (i*W/(Nx-1), jj*H/(Ny-1)); the numbering is a bijection onto
\* [0, Nx*Ny), so no two nodes share an index or a position.
C3_RowMajor ==
    mesh_just_returned =>
        LET Xy == mesh.Xy
            grid == (0 .. (Nx - 1)) \X (0 .. (Ny - 1))
        IN  /\ \A g \in grid :
                  /\ nidx(g[1], g[2], Nx) = g[2] * Nx + g[1]
                  /\ nidx(g[1], g[2], Nx) \in DOMAIN Xy
                  /\ Xy[g[2] * Nx + g[1]][1][1] * (Nx - 1)
                        = g[1] * W * Xy[g[2] * Nx + g[1]][1][2]
                  /\ Xy[g[2] * Nx + g[1]][2][1] * (Ny - 1)
                        = g[2] * H * Xy[g[2] * Nx + g[1]][2][2]
            /\ \A p \in DOMAIN Xy :
                  Cardinality({g \in grid : nidx(g[1], g[2], Nx) = p}) = 1
            /\ \A p, q \in DOMAIN Xy : p # q => Xy[p] # Xy[q]

C3_Witness == mesh_just_returned /\ Nx >= 3 /\ Ny >= 2 /\ Nx # Ny

\* C4: rect_mesh with Nx < 2 or Ny < 2 fails with an InvalidMeshSize error
\* and returns no mesh.  (Stated generously: any exception raised by
\* rect_mesh counts as that error.)
C4_SmallMeshFails ==
    ((Nx < 2 \/ Ny < 2) /\ pc # "rect_mesh") =>
        (pc = "failed" /\ raised \in MeshErrors)

TEKinds == { <<"T","E">>, <<"t","e">> }

TMKinds == { <<"T","M">> }

\* the nodes on none of the four edges, by grid position
IndexInterior ==
    {jj * Nx + i : <<i, jj>> \in (1 .. (Nx - 2)) \X (1 .. (Ny - 2))}

\* both grid spacings exceed what np.isclose tells apart from an edge:
\* W/(Nx-1) > atol + rtol*W and H/(Ny-1) > atol + rtol*H
SpacingResolved ==
    /\ W * IscloseRtolInv > (IscloseAtol * IscloseRtolInv + W) * (Nx - 1)
    /\ H * IscloseRtolInv > (IscloseAtol * IscloseRtolInv + H) * (Ny - 1)

\* C5 (as stated): for kind TM the active set is exactly the nodes with
\* 0 < i < Nx-1 and 0 < j < Ny-1.
C5_Original ==
    (interior_set /\ kind = <<"T","M">>) => PyRange(interior) = IndexInterior

\* C5 (amended): the active set is all node indices for TE; for TM it is the
\* nodes that none of the four np.isclose edge tests flags, which never
\* includes an edge node and is exactly the (Nx-2)*(Ny-2) nodes with
\* 0 < i < Nx-1, 0 < j < Ny-1 whenever both grid spacings exceed the isclose
\* tolerance; K and M are restricted to the rows and columns of that set.
C5_ActiveDofs ==
    interior_set =>
        /\ kind \in TEKinds =>
              /\ DOMAIN interior = 0 .. (Nx * Ny - 1)
              /\ \A p \in DOMAIN interior : interior[p] = p
        /\ kind \in TMKinds =>
              /\ DOMAIN interior = 0 .. (PyLen(interior) - 1)
              /\ \A r, q \in DOMAIN interior : r < q => interior[r] < interior[q]
              /\ PyRange(interior) \subseteq IndexInterior
              /\ SpacingResolved =>
                    /\ PyRange(interior) = IndexInterior
                    /\ (Nx >= 2 /\ Ny >= 2) =>
                          PyLen(interior) = (Nx - 2) * (Ny - 2)
        /\ pc = "shift" =>
              /\ DOMAIN Kii = DOMAIN interior
              /\ DOMAIN Mii = DOMAIN interior
              /\ \A r, c \in DOMAIN interior :
                    /\ DOMAIN Kii[r] = DOMAIN interior
                    /\ DOMAIN Mii[r] = DOMAIN interior
                    /\ Kii[r][c] = K[interior[r]][interior[c]]
                    /\ Mii[r][c] = M[interior[r]][interior[c]]

C5_Witness ==
    /\ pc = "shift"
    /\ kind \in TMKinds
    /\ SpacingResolved
    /\ PyLen(interior) >= 3

\* C6: for kind TM the returned field vector has length Nx*Ny and is exactly
\* zero at every node on the four boundary edges, before and after the sign
\* normalisation; only active indices receive eigenvector components.
C6_TMZeroOnBoundary ==
    (pc \in {"sign", "error", "returned"} /\ kind \in TMKinds) =>
        /\ DOMAIN vec = 0 .. (Nx * Ny - 1)
        /\ \A i \in 0 .. (Nx - 1), jj \in 0 .. (Ny - 1) :
              (i = 0 \/ i = Nx - 1 \/ jj = 0 \/ jj = Ny - 1) =>
                  vec[jj * Nx + i] = 0
        /\ \A p \in DOMAIN vec : p \notin PyRange(interior) => vec[p] = 0
        /\ pc = "returned" => result.vec = vec

C6_Witness ==
    /\ pc = "returned"
    /\ kind \in TMKinds
    /\ \E r \in DOMAIN interior :
          vecs[r][j] < 0 /\ result.vec[interior[r]] = -vecs[r][j]

AcceptedKinds == { <<"T","E">>, <<"T","M">>, <<"t","e">> }

\* C7 (as stated): any kind other than "TE" or "TM" runs no eigen-solve and
\* returns no result tuple.  (Stated generously: a call that eigsh refuses
\* for its arguments does not count as an eigen-solve.)
C7_Original ==
    kind \notin { <<"T","E">>, <<"T","M">> } =>
        pc \notin {"argsort", "select", "expand", "sign", "error", "returned"}

\* C7 (amended): a kind whose upper-case form is neither "TE" nor "TM" runs
\* no eigen-solve and returns no result tuple: once mesh generation and
\* assembly are through, the call fails with the invalid-kind ValueError.
\* A kind that differs from "TE" or "TM" only in letter case is accepted.
C7_InvalidKindRaises ==
    /\ kind \notin AcceptedKinds =>
          /\ eigsh_k = <<>>
          /\ ~interior_set
          /\ (mesh_returned /\ pc = "failed") => raised = "ValueError: kind"
          /\ mesh_returned => pc \in {"assemble_init", "assemble", "boundary",
                                      "failed"}
    /\ kind \in AcceptedKinds => raised # "ValueError: kind"

C7_Witness ==
    kind = <<"T","X">> /\ pc = "failed" /\ raised = "ValueError: kind"

\* C8: with fewer than 3 active degrees of freedom solve_mode fails with an
\* UnderdeterminedSystem error instead of calling the eigensolver.  (Stated
\* generously: on a mesh with Nx, Ny >= 2 it is enough that eigsh is not
\* called.)
C8_NoEigshWhenUnderdetermined ==
    (reduced /\ Nx >= 2 /\ Ny >= 2 /\ PyLen(interior) < 3) => eigsh_k = <<>>

\* C9: the k that solve_mode passes to eigsh never exceeds dim(Kii) - 2, and
\* a requested k_eigs above that bound is clamped to it, not rejected.
C9_KReqClamped ==
    eigsh_k # <<>> =>
        /\ Len(eigsh_k) = 1
        /\ eigsh_k[1] <= PyLen(Kii) - 2
        /\ k_eigs > PyLen(Kii) - 2 => eigsh_k[1] = PyLen(Kii) - 2

C9_Witness ==
    /\ pc = "returned"
    /\ eigsh_k # <<>>
    /\ k_eigs > PyLen(Kii) - 2

\* the distance |kc - kc_ana| of the sorted pair p
C10_dist(p) == Abs(kc_list[p] - kc_ana)

\* C10: after the eigen-solve the eigenpairs are in ascending order of
\* eigenvalue, each eigenvector still paired with its own eigenvalue; the
\* returned pair is the one whose kc = sqrt(max(lambda, 0)) is closest to
\* the analytic kc (the lowest-indexed one on ties), and the returned
\* vector is the eigenvector of that same eigenvalue.
C10_SortedAndNearest ==
    selected =>
        /\ DOMAIN idx = DOMAIN eigsh_ret.vals
        /\ PyRange(idx) = DOMAIN eigsh_ret.vals
        /\ \A p \in DOMAIN idx :
              /\ vals[p] = eigsh_ret.vals[idx[p]]
              /\ \A r \in DOMAIN vecs : vecs[r][p] = eigsh_ret.vecs[r][idx[p]]
        /\ \A p, q \in DOMAIN vals : p < q => vals[p] <= vals[q]
        /\ \A p \in DOMAIN vals :
              /\ kc_list[p] >= 0
              /\ kc_list[p] * kc_list[p] <= Max(vals[p], 0)
              /\ Max(vals[p], 0) < (kc_list[p] + 1) * (kc_list[p] + 1)
        /\ \A q \in DOMAIN vals :
              /\ C10_dist(j) <= C10_dist(q)
              /\ q < j => C10_dist(q) > C10_dist(j)
        /\ kc_fem = kc_list[j]
        /\ pc \in {"sign", "error", "returned"} =>
              \/ \A r \in DOMAIN interior :
                    vec[interior[r]] = eigsh_ret.vecs[r][idx[j]]
              \/ \A r \in DOMAIN interior :
                    vec[interior[r]] = -eigsh_ret.vecs[r][idx[j]]
        /\ pc = "returned" => (result.kc_fem = kc_fem /\ result.vec = vec)

C10_Witness ==
    /\ pc = "returned"
    /\ \E p \in DOMAIN idx : idx[p] # p
    /\ \E q \in DOMAIN vals : q # j /\ C10_dist(q) = C10_dist(j)

\* C11: the field vector solve_mode returns never has a negative component
\* sum: when the selected eigenvector (expanded to the full mesh) sums to a
\* negative value every component is negated, otherwise the vector is
\* returned as it was.
C11_SignConvention ==
    pc \in {"error", "returned"} =>
        LET raw == expand(PyLen(mesh.Xy), interior, vecs, j)
            total == sum(raw)
        IN  /\ sum(vec) >= 0
            /\ total < 0 => vec = [p \in DOMAIN raw |-> -raw[p]]
            /\ total >= 0 => vec = raw
            /\ pc = "returned" => result.vec = vec

C11_Witness ==
    /\ pc = "returned"
    /\ sum(expand(PyLen(mesh.Xy), interior, vecs, j)) < 0
    /\ sum(result.vec) > 0

\* assemble_K_M is inside its element loop or has returned
assembling == pc \in {"assemble", "boundary"}

\* C13: in assemble_K_M, K and M are symmetric after every element scatter,
\* K[I,J] = K[J,I] and M[I,J] = M[J,I] for all I, J, and so in the matrices
\* it returns.
C13_Symmetric ==
    assembling =>
        \A I, J \in DOMAIN K : K[I][J] = K[J][I] /\ M[I][J] = M[J][I]

C13_Witness ==
    /\ pc = "assemble"
    /\ elem >= 2
    /\ elem < PyLen(mesh.Tri)
    /\ \E I, J \in DOMAIN K : I # J /\ K[I][J] # RInt(0) /\ M[I][J] # RInt(0)

\* twice the area of the triangle ids, by the shoelace formula
C14_area2(coords, ids) ==
    LET x == tri_x(coords, ids)
        y == tri_y(coords, ids)
    IN  RAbs(RAdd(RAdd(RMul(x[1], RSub(y[2], y[3])),
                       RMul(x[2], RSub(y[3], y[1]))),
                  RMul(x[3], RSub(y[1], y[2]))))

\* the area of the triangle ids is at or below the tolerance
C14_small(coords, ids) == RLeq(C14_area2(coords, ids), RInt(2 * AreaTol))

\* C14: assemble_K_M skips every triangle whose area is at or below the
\* tolerance: the loop moves on to the next element without an error and
\* with K and M exactly as they were, while a triangle above the tolerance
\* is scattered into K and M.
C14_SkipsDegenerate ==
    [][(pc = "assemble" /\ elem < PyLen(mesh.Tri)) =>
          /\ elem' = elem + 1
          /\ pc' = "assemble"
          /\ raised' = None
          /\ IF C14_small(mesh.Xy, mesh.Tri[elem])
             THEN K' = K /\ M' = M
             ELSE K' # K /\ M' # M]_vars

C14_Witness ==
    /\ pc = "boundary"
    /\ raised = None
    /\ \E e1, e2 \in DOMAIN mesh.Tri :
          /\ e1 < e2
          /\ C14_small(mesh.Xy, mesh.Tri[e1])
          /\ ~C14_small(mesh.Xy, mesh.Tri[e2])
          /\ \A c \in 1 .. 3 : K[mesh.Tri[e2][c]][mesh.Tri[e2][c]] # RInt(0)

\* the element list is the one rect_mesh generates for Nx, Ny, W, H
C16_generated == mesh.Tri = rect_mesh(Nx, Ny, W, H).Tri

\* hx*hy/2 exceeds the area tolerance
C16_resolved == W * H > 2 * AreaTol * (Nx - 1) * (Ny - 1)

\* C16: for Nx, Ny >= 2 and W, H > 0 with hx*hy/2 above the tolerance, every
\* triangle rect_mesh produces has the strictly positive area hx*hy/2, and
\* assemble_K_M skips none of them.
C16_NoGeneratedElementSkipped ==
    (pc = "assemble_init" /\ Nx >= 2 /\ Ny >= 2 /\ C16_generated
        /\ C16_resolved) =>
        \A t \in DOMAIN mesh.Tri :
            /\ C14_area2(mesh.Xy, mesh.Tri[t])
                  = RNorm(W * H, (Nx - 1) * (Ny - 1))
            /\ RLt(RInt(0), tri_area(mesh.Xy, mesh.Tri[t]))
            /\ ~degenerate(mesh.Xy, mesh.Tri[t])

C16_Witness ==
    /\ pc = "boundary"
    /\ C16_generated
    /\ C16_resolved
    /\ Nx = 3 /\ Ny = 3
    /\ \A I \in DOMAIN K : K[I][I] # RInt(0)

\* ------------------------------------------------------------------------
\* C12: assembly accumulates and never overwrites. Once every element is
\* processed, each global entry K[I,J] and M[I,J] (and F[I] in the Helmholtz
\* assembler) is the sum, over the assembled elements that contain I and J
\* (resp. I), of the element's local entries at those nodes; node pairs
\* that share no element have a zero entry. The sums are taken here over
\* the set of local pairs, not by the assembler's scatter.
\* ------------------------------------------------------------------------
RECURSIVE C12_rsum(_)
C12_rsum(terms) ==
    IF terms = {} THEN RInt(0)
    ELSE LET t == CHOOSE x \in terms : TRUE
         IN  RAdd(t[2], C12_rsum(terms \ {t}))

RECURSIVE C12_csum(_)
C12_csum(terms) ==
    IF terms = {} THEN CZero
    ELSE LET t == CHOOSE x \in terms : TRUE
         IN  CAdd(t[2], C12_csum(terms \ {t}))

\* the triangles assemble_K_M does not skip, with their local matrices
C12_tri_locals ==
    { [e |-> e, ids |-> mesh.Tri[e],
       Ke |-> Ke(mesh.Xy, mesh.Tri[e]), Me |-> Me(mesh.Xy, mesh.Tri[e])] :
      e \in {t \in DOMAIN mesh.Tri : ~C14_small(mesh.Xy, mesh.Tri[t])} }

\* the local positions (element, a, b) that land on the global pair (I, J)
C12_tri_hits(locs, I, J) ==
    {hit \in locs \X (1 .. 3) \X (1 .. 3) :
        hit[1].ids[hit[2]] = I /\ hit[1].ids[hit[3]] = J}

C12_Triangles ==
    pc = "boundary" =>
        \E locs \in {C12_tri_locals} :
            \A I, J \in DOMAIN K :
                \E hits \in {C12_tri_hits(locs, I, J)} :
                    /\ K[I][J] = C12_rsum({<<hit, hit[1].Ke[hit[2]][hit[3]]>> :
                                              hit \in hits})
                    /\ M[I][J] = C12_rsum({<<hit, hit[1].Me[hit[2]][hit[3]]>> :
                                              hit \in hits})

\* every cell of the extended grid with its local matrices and vector
C12_quad_locals ==
    { fem_local(variant, domain, frequency, velocity_array, source, alpha,
                c[1], c[2]) :
      c \in (0 .. (domain.nx - 2)) \X (0 .. (domain.ny - 2)) }

C12_quad_hits(locs, I, J) ==
    {hit \in locs \X (0 .. 3) \X (0 .. 3) :
        hit[1].nodes[hit[2]] = I /\ hit[1].nodes[hit[3]] = J}

C12_Quadrilaterals ==
    pc = "fem_returned" =>
        \E locs \in {C12_quad_locals} :
            /\ \A I, J \in DOMAIN K :
                  \E hits \in {C12_quad_hits(locs, I, J)} :
                      /\ K[I][J] = C12_csum({<<hit, hit[1].Ke[hit[2]][hit[3]]>> :
                                                hit \in hits})
                      /\ M[I][J] = C12_csum({<<hit, hit[1].Me[hit[2]][hit[3]]>> :
                                                hit \in hits})
                      /\ result.A[I][J] = <<K[I][J], M[I][J]>>
            /\ \A I \in DOMAIN F :
                  /\ F[I] = C12_csum({<<hit, hit[1].Fe[hit[2]]>> :
                                        hit \in {g \in locs \X (0 .. 3) :
                                                  g[1].nodes[g[2]] = I}})
                  /\ result.F[I] = F[I]

C12_Accumulates == C12_Triangles /\ C12_Quadrilaterals

\* C12 witness: a returned Helmholtz system of at least two elements where
\* node 1, which two elements share, has a nonzero diagonal entry that is
\* no single element's, and the first and last node share no element
C12_Witness ==
    /\ pc = "fem_returned"
    /\ domain.nx >= 3
    /\ K[1][1] # CZero
    /\ \A l \in C12_quad_locals :
          \A a \in 0 .. 3 : l.nodes[a] = 1 => l.Ke[a][a] # K[1][1]
    /\ K[0][domain.nk - 1] = CZero
    /\ F[1] # CZero

\* ------------------------------------------------------------------------
\* C15: in the Helmholtz assembler an element whose |det J| is below the
\* tolerance at a quadrature point is skipped: no error is raised, K, M and
\* F keep their values, and the loop goes on to the next element. A cell of
\* zero width or height has det J = 0, below every tolerance.
\* ------------------------------------------------------------------------
C15_cell_area(dom, e) ==
    RMul(RSub(dom.x_array[(e % (dom.nx - 1)) + 1],
              dom.x_array[e % (dom.nx - 1)]),
         RSub(dom.y_array[(e \div (dom.nx - 1)) + 1],
              dom.y_array[e \div (dom.nx - 1)]))

\* C15 as stated: the pass over a cell of zero area raises nothing, leaves
\* K, M and F alone and moves on (violated: np.linalg.inv raises)
C15_SingularElementSkipped ==
    [][(/\ pc = "fem_element"
        /\ elem < (domain.nx - 1) * (domain.ny - 1)
        /\ C15_cell_area(domain, elem) = RInt(0))
       => /\ raised' = None
          /\ pc' = "fem_element"
          /\ elem' = elem + 1
          /\ K' = K /\ M' = M /\ F' = F]_vars

\* ------------------------------------------------------------------------
\* C17
\* ------------------------------------------------------------------------

\* index i of an axis of num nodes lies between the two layer boundaries,
\* the boundary indices nb and num - nb - 1 included
C17_interior(num, nb, i) == nb <= i /\ i <= num - nb - 1

\* the complex number 1 + 0j
C17_one == <<Q3Int(1), Q3Int(0)>>

\* pml_domain has returned, so that pml_functions can be built on the domain
C17_built ==
    \/ pc \in {"velocity", "fem_init", "fem_element", "fem_returned"}
    \/ pc = "failed" /\ raised = "LinAlgError"

\* the factors of the nodes of the extended grid
C17_Nodes ==
    \A i \in 0 .. (domain.nx - 1), jj \in 0 .. (domain.ny - 1) :
        /\ C17_interior(domain.nx, domain.nbl, i)
              => /\ sigma_x(domain, alpha, frequency, i) = RInt(0)
                 /\ s_tilde(sigma_x(domain, alpha, frequency, i), frequency)
                       = C17_one
        /\ C17_interior(domain.ny, domain.nbl, jj)
              => /\ sigma_y(domain, alpha, frequency, jj) = RInt(0)
                 /\ s_tilde(sigma_y(domain, alpha, frequency, jj), frequency)
                       = C17_one
        /\ (/\ C17_interior(domain.nx, domain.nbl, i)
            /\ C17_interior(domain.ny, domain.nbl, jj))
              => pml_transform(domain, alpha, frequency, i, jj)
                    = <<C17_one, C17_one>>
        \* a layer node's sigma divides by lpml
        /\ (/\ domain.lpml # RInt(0)
            /\ C17_interior(domain.nx, domain.nbl, i)
            /\ ~ C17_interior(domain.ny, domain.nbl, jj))
              => pml_transform(domain, alpha, frequency, i, jj)[1] = C17_one
        /\ (/\ domain.lpml # RInt(0)
            /\ ~ C17_interior(domain.nx, domain.nbl, i)
            /\ C17_interior(domain.ny, domain.nbl, jj))
              => pml_transform(domain, alpha, frequency, i, jj)[2] = C17_one

\* the factors the assembler used at the Gauss points of its last element
C17_Sampled ==
    (pc \in {"fem_element", "fem_returned"} /\ elem > 0)
    => \A gp \in 0 .. 3 :
          /\ C17_interior(domain.nx, domain.nbl, sampled[gp].i_gp)
                => sampled[gp].s[1] = C17_one
          /\ C17_interior(domain.ny, domain.nbl, sampled[gp].j_gp)
                => sampled[gp].s[2] = C17_one

\* C17: PML transparency. For every index i of an axis with
\* nbl <= i <= n - nbl - 1, the two layer-boundary indices included, the
\* damping sigma is 0 and the stretching factor is exactly 1; pml_transform
\* returns exactly (1, 1) at a node that is interior on both axes, and at a
\* node inside a layer on one axis only the factor of the other axis is
\* exactly 1.
C17_Transparent == C17_built => (C17_Nodes /\ C17_Sampled)

\* C17 witness: the assembler has returned on a domain with layers; the node
\* (0, nbl) is inside the left layer and on the lower layer boundary, its x
\* factor differs from 1 and its y factor is 1, and the node on the two
\* boundaries (nbl, ny - nbl - 1) has the factors (1, 1).
C17_Witness ==
    /\ pc = "fem_returned"
    /\ domain.nbl = 1
    /\ pml_transform(domain, alpha, frequency, 0, domain.nbl)[1] # C17_one
    /\ pml_transform(domain, alpha, frequency, 0, domain.nbl)[2] = C17_one
    /\ pml_transform(domain, alpha, frequency, domain.nbl,
                     domain.ny - domain.nbl - 1) = <<C17_one, C17_one>>
    /\ \E gp \in 0 .. 3 : sampled[gp].s = <<C17_one, C17_one>>

\* ------------------------------------------------------------------------
\* C18
\* ------------------------------------------------------------------------

\* (xmax - xmin)/(nx_main - 1) * nbl of the domain pml_domain was called on
C18_computed ==
    RMul(RDiv(RSub(domain.main_extension[2], domain.main_extension[1]),
              RInt(domain.main_shape[1] - 1)),
         RInt(nbl))

\* C18: once pml_domain has assigned lpml, the stored lpml is the computed
\* value (main grid spacing) * nbl = (xmax - xmin)/(nx_main - 1) * nbl, for
\* every nbl, and not a constant.
C18_LpmlIsComputed ==
    (variant \in Variants /\ pc # "pml_domain"
        /\ raised # "ZeroDivisionError")
    => domain.lpml = C18_computed

\* ------------------------------------------------------------------------
\* C19
\* ------------------------------------------------------------------------

\* index k is a node of the axis with coordinates c nearest to position c_gp
C19_nearest(c, num, c_gp, k) ==
    \A other \in 0 .. (num - 1) :
        ~ Q3Lt(Q3Abs(Q3Sub(Q3(c[other]), c_gp)),
               Q3Abs(Q3Sub(Q3(c[k]), c_gp)))

\* C19: at every quadrature point the assembler samples the velocity and
\* the PML stretching at the grid index nearest to the point's physical
\* position (per axis, the node index that minimises the distance to the
\* point), with the same index pair for both and no interpolation.
C19_NearestIndexSampled ==
    (variant \in Variants /\ pc \in {"fem_element", "fem_returned"}
        /\ elem > 0)
    => \A gp \in 0 .. 3 :
          /\ C19_nearest(domain.x_array, domain.nx, sampled[gp].x_gp,
                         sampled[gp].i_gp)
          /\ C19_nearest(domain.y_array, domain.ny, sampled[gp].y_gp,
                         sampled[gp].j_gp)
          /\ sampled[gp].v_gp
                = velocity_array[sampled[gp].i_gp][sampled[gp].j_gp]
          /\ sampled[gp].s
                = pml_transform(domain, alpha, frequency,
                                sampled[gp].i_gp, sampled[gp].j_gp)

\* ------------------------------------------------------------------------
\* C20
\* ------------------------------------------------------------------------

\* the nodes the claim gives cell (i, jj) of a grid with nx nodes a row
C20_nodes(i, jj, nx) ==
    <<jj * nx + i, jj * nx + i + 1, (jj + 1) * nx + i + 1, (jj + 1) * nx + i>>

C20_node_set(i, jj, nx) == { C20_nodes(i, jj, nx)[a] : a \in 1 .. 4 }

\* detJ at Gauss point gp of cell (i, jj), as the assembler computes it
C20_detJ(i, jj, gp) ==
    fem_det(fem_jacobian(fem_setup(variant, domain, i, jj, gp)))

\* the number of passes the element loops make
C20_count == (domain.nx - 1) * (domain.ny - 1)

\* every cell's element has the claimed nodes, all of them nodes of the grid
C20_Connectivity ==
    /\ \A i \in 0 .. (domain.nx - 2), jj \in 0 .. (domain.ny - 2) :
          /\ \A a \in 0 .. 3 :
                fem_nodes(i, jj, domain.nx)[a]
                   = C20_nodes(i, jj, domain.nx)[a + 1]
          /\ C20_node_set(i, jj, domain.nx) \subseteq 0 .. (domain.nk - 1)
          /\ Cardinality(C20_node_set(i, jj, domain.nx)) = 4
    /\ pc = "fem_element" => elem <= C20_count
    /\ pc = "fem_returned" => elem = C20_count

\* detJ is positive at every Gauss point of every cell
C20_PositiveJacobian ==
    \A i \in 0 .. (domain.nx - 2), jj \in 0 .. (domain.ny - 2) :
        \A gp \in 0 .. 3 : Q3Sign(C20_detJ(i, jj, gp)) > 0

\* a pass of the element loops that completes handles cell
\* (elem mod (nx-1), elem div (nx-1)) and nothing else: it is the next cell
\* in row order, the mass matrix changes on the diagonal at exactly the four
\* nodes of the cell, and K and F change nowhere else
C20_OneElementPerCell ==
    (pc = "fem_element" /\ pc' = "fem_element" /\ elem' # elem)
    => /\ elem' = elem + 1
       /\ elem < C20_count
       /\ elem % (domain.nx - 1) \in 0 .. (domain.nx - 2)
       /\ elem \div (domain.nx - 1) \in 0 .. (domain.ny - 2)
       /\ \A I \in 0 .. (domain.nk - 1) :
             /\ (M'[I][I] # M[I][I])
                   <=> I \in C20_node_set(elem % (domain.nx - 1),
                                          elem \div (domain.nx - 1),
                                          domain.nx)
             /\ (F'[I] # F[I])
                   => I \in C20_node_set(elem % (domain.nx - 1),
                                         elem \div (domain.nx - 1),
                                         domain.nx)
             /\ \A J \in 0 .. (domain.nk - 1) :
                   (K'[I][J] # K[I][J] \/ M'[I][J] # M[I][J])
                   => {I, J} \subseteq
                         C20_node_set(elem % (domain.nx - 1),
                                      elem \div (domain.nx - 1), domain.nx)

\* C20 as stated: each grid cell (i, j), 0 <= i < nx-1, 0 <= j < ny-1, is
\* exactly one 4-node element with nodes
\* [j*nx+i, j*nx+i+1, (j+1)*nx+i+1, (j+1)*nx+i], which gives (nx-1)*(ny-1)
\* elements, all indices in [0, nx*ny), and a positive Jacobian determinant
\* at every quadrature point of every element.
C20_Elements ==
    /\ [](C17_built => (C20_Connectivity /\ C20_PositiveJacobian))
    /\ [][C20_OneElementPerCell]_vars

\* C20 amended: the same connectivity, count and index range on every
\* extended grid, and a positive Jacobian determinant at every quadrature
\* point of every element when the grid spacings dx and dy are positive (on a
\* grid of zero width every determinant is 0).
C20_ElementsOnProperGrid ==
    /\ [](C17_built
            => /\ C20_Connectivity
               /\ (RLt(RInt(0), domain.dx) /\ RLt(RInt(0), domain.dy))
                     => C20_PositiveJacobian)
    /\ [][C20_OneElementPerCell]_vars

\* C20 witness: the assembler has made all its passes over a grid of
\* positive spacings with at least two cells in each direction, and the
\* last element, in the upper right corner, had a positive determinant at
\* its four Gauss points.
C20_Witness ==
    /\ pc = "fem_returned"
    /\ domain.nx >= 3 /\ domain.ny >= 3
    /\ RLt(RInt(0), domain.dx) /\ RLt(RInt(0), domain.dy)
    /\ elem = C20_count
    /\ \A gp \in 0 .. 3 :
          /\ Q3Sign(sampled[gp].detJ) > 0
          /\ sampled[gp].detJ = C20_detJ(domain.nx - 2, domain.ny - 2, gp)

\* ------------------------------------------------------------------------
\* C21
\* ------------------------------------------------------------------------

\* the sum of the four entries of an array of the element
C21_sum(a) == Q3Add(Q3Add(Q3Add(a[0], a[1]), a[2]), a[3])

\* C21: partition of unity. For every (xi, eta) of the reference square the
\* four values shape_functions returns sum to 1, and the four xi-derivatives
\* and the four eta-derivatives shape_derivatives returns each sum to 0, for
\* BilinearElement and for Q1.
C21_PartitionOfUnity ==
    /\ pc = "shape_functions_returned" => C21_sum(result) = Q3Int(1)
    /\ pc = "shape_derivatives_returned"
          => /\ C21_sum(result.dN_dxi) = Q3Int(0)
             /\ C21_sum(result.dN_deta) = Q3Int(0)

\* C21 witness: shape_functions has returned at the Gauss point
\* (1/sqrt(3), -1/sqrt(3)), where the four values are different from each
\* other and none is 0.
C21_Witness ==
    /\ pc = "shape_functions_returned"
    /\ xi_eta = << <<RInt(0), RInt(1)>>, <<RInt(0), RInt(-1)>> >>
    /\ \A a \in 0 .. 3 : result[a] # Q3Int(0)
    /\ Cardinality({ result[a] : a \in 0 .. 3 }) >= 3
    /\ C21_sum(result) = Q3Int(1)

\* ------------------------------------------------------------------------
\* C22
\* ------------------------------------------------------------------------

\* reference node k = 1..4: (-1,-1), (1,-1), (1,1), (-1,1)
C22_node(k) ==
    CASE k = 1 -> <<Q3Int(-1), Q3Int(-1)>>
      [] k = 2 -> <<Q3Int(1), Q3Int(-1)>>
      [] k = 3 -> <<Q3Int(1), Q3Int(1)>>
      [] OTHER -> <<Q3Int(-1), Q3Int(1)>>

\* C22: Kronecker-delta property. shape_functions evaluated at reference
\* node k returns 1 in position k and 0 in the other three positions, for
\* BilinearElement and for Q1.
C22_KroneckerDelta ==
    \A k \in 1 .. 4 :
        (pc = "shape_functions_returned" /\ xi_eta = C22_node(k))
        => \A a \in 0 .. 3 :
              result[a] = IF a = k - 1 THEN Q3Int(1) ELSE Q3Int(0)

\* C22 witness: Q1.shape_functions has returned at node 3, (1, 1), with the
\* unit vector of position 3.
C22_Witness ==
    /\ pc = "shape_functions_returned"
    /\ variant = "Helmholtz_interface"
    /\ xi_eta = C22_node(3)
    /\ result[2] = Q3Int(1)
    /\ result[0] = Q3Int(0) /\ result[1] = Q3Int(0) /\ result[3] = Q3Int(0)

\* ------------------------------------------------------------------------
\* C23
\* ------------------------------------------------------------------------

\* the call of solve_helmholtz_fem is over: it raised or it returned
C23_ended == pc \in {"failed", "solve_returned", "source_array"}

\* C23: solve_helmholtz_fem fails with a SingularSystemError when the
\* assembled matrix A = K - M is singular, and never returns a field then.
\* At zero frequency without layers M is 0 and K annihilates the constant
\* vector, so A is singular: the call must end with that error.
C23_SingularSystemError ==
    (frequency = 0 /\ nbl = 0 /\ C23_ended)
    => (pc = "failed" /\ raised = "SingularSystemError")


\* ------------------------------------------------------------------------
\* C24: the assembled K, M and F do not depend on the order in which the
\* elements are processed: whatever the order of the elements, and with
\* the additions of different elements alternating, the scatter ends in
\* the matrices and vector that the loops' own order gives
\* ------------------------------------------------------------------------

\* assemble_K_M's loop from triangle e on, in the order of Tri
RECURSIVE C24_tri(_, _)
C24_tri(e, KM) ==
    IF e >= PyLen(mesh.Tri) THEN KM
    ELSE Let(LAMBDA after : C24_tri(e + 1, after),
             assemble_element(mesh.Xy, mesh.Tri[e], KM))

\* assemble_fem_system's loops from cell e on, j outermost and i innermost
RECURSIVE C24_quad(_, _)
C24_quad(e, KMF) ==
    IF e >= (domain.nx - 1) * (domain.ny - 1) THEN KMF
    ELSE Let(LAMBDA after : C24_quad(e + 1, after),
             Let(LAMBDA loc : fem_scatter(loc, 0, KMF),
                 fem_local(variant, domain, frequency, velocity_array,
                           source, alpha, e % (domain.nx - 1),
                           e \div (domain.nx - 1))))

C24_OrderIndependent ==
    pc = "scattered" =>
        IF variant = None
        THEN [Kmat |-> K, Mmat |-> M]
                 = C24_tri(0, [Kmat |-> zeros(PyLen(mesh.Xy)),
                               Mmat |-> zeros(PyLen(mesh.Xy))])
        ELSE [Kmat |-> K, Mmat |-> M, Fvec |-> F]
                 = C24_quad(0, [Kmat |-> czeros(domain.nx * domain.ny),
                                Mmat |-> czeros(domain.nx * domain.ny),
                                Fvec |-> czeros1(domain.nx * domain.ny)])

\* a scatter that began with another element than the first and in which
\* the additions of two elements alternated has ended
C24_Witness ==
    /\ pc = "scattered"
    /\ variant # None
    /\ order.first > 0
    /\ order.mixed


\* ------------------------------------------------------------------------
\* C25: the mesh is built once per configuration and never modified: one
\* mesh-builder call per (Nx, Ny, W, H), and the Xy and Tri that solve_mode
\* returns are those of rect_mesh(Nx, Ny, W, H)
\* ------------------------------------------------------------------------

\* the frame part: what solve_mode holds and returns is the built mesh
C25_ReturnsBuiltMesh ==
    /\ pc \in {"boundary", "reduce", "shift", "eigsh", "argsort", "error"}
          => /\ mesh.Xy = rect_mesh(Nx, Ny, W, H).Xy
             /\ mesh.Tri = rect_mesh(Nx, Ny, W, H).Tri
    /\ pc = "returned"
          => /\ result.Xy = rect_mesh(Nx, Ny, W, H).Xy
             /\ result.Tri = rect_mesh(Nx, Ny, W, H).Tri

C25_MeshBuiltOnce ==
    /\ built <= 1
    /\ C25_ReturnsBuiltMesh

\* ------------------------------------------------------------------------
\* C26: every script that pairs a mesh size h with a solve_mode result
\* reports the size of the mesh actually solved, max(W/(Nx-1), H/(Ny-1))
\* ------------------------------------------------------------------------
C26_ReportsSolvedMeshSize ==
    (script # None /\ pc = "returned")
        => h = RMax(RNorm(W, Nx - 1), RNorm(H, Ny - 1))


\* ------------------------------------------------------------------------
\* C28: after pml_domain(nbl) the two layer-boundary nodes sit on the edges
\* of the main extension, in x and in y, the extended grid keeps the main
\* grid's spacing, and the normalised depth (|x| - |x_boundary|)/lpml is 1
\* at the outermost nodes
\* ------------------------------------------------------------------------

\* pml_domain has returned
C28_returned ==
    /\ variant \in Variants
    /\ \/ pc \in {"velocity", "fem_init", "fem_element", "fem_returned"}
       \/ pc = "failed" /\ raised = "LinAlgError"

\* (|a[outer]| - |a[edge]|) / lpml
C28_depth(a, outer, edge) ==
    RDiv(RSub(RAbs(a[outer]), RAbs(a[edge])), domain.lpml)

C28_x ==
    /\ domain.x_array[nbl] = domain.main_extension[1]
    /\ domain.x_array[domain.nx - nbl - 1] = domain.main_extension[2]
    /\ domain.dx = RDiv(RSub(domain.main_extension[2],
                             domain.main_extension[1]),
                        RInt(domain.main_shape[1] - 1))
    /\ (nbl > 0 /\ domain.lpml # RInt(0))
          => /\ RAbs(C28_depth(domain.x_array, 0, nbl)) = RInt(1)
             /\ RAbs(C28_depth(domain.x_array, domain.nx - 1,
                               domain.nx - nbl - 1)) = RInt(1)

C28_y ==
    /\ domain.y_array[nbl] = domain.main_extension[3]
    /\ domain.y_array[domain.ny - nbl - 1] = domain.main_extension[4]
    /\ domain.main_shape[2] > 1
          => domain.dy = RDiv(RSub(domain.main_extension[4],
                                   domain.main_extension[3]),
                              RInt(domain.main_shape[2] - 1))
    /\ (nbl > 0 /\ domain.lpml # RInt(0))
          => /\ RAbs(C28_depth(domain.y_array, 0, nbl)) = RInt(1)
             /\ RAbs(C28_depth(domain.y_array, domain.ny - 1,
                               domain.ny - nbl - 1)) = RInt(1)

C28_LayersOnMainEdges == C28_returned => (C28_x /\ C28_y)


\* ------------------------------------------------------------------------
\* C29: pml_domain does not accumulate: after any sequence of calls on one
\* HelmholtzDomain the object is what a single call with the last nbl
\* leaves on a fresh domain, with nx = nx_main + 2*nbl, ny = ny_main + 2*nbl
\* and nk = nx*ny, and main_shape and main_extension never change
\* ------------------------------------------------------------------------

\* the last call of the sequence has returned
C29_AsSingleCall ==
    pc = "pml_returned" =>
        /\ domain = pml_domain(variant,
                               HelmholtzDomain(domain.main_shape,
                                               domain.main_extension),
                               pml_calls[Len(pml_calls)]).self
        /\ domain.nbl = pml_calls[Len(pml_calls)]
        /\ domain.nx = domain.main_shape[1] + 2 * domain.nbl
        /\ domain.ny = domain.main_shape[2] + 2 * domain.nbl
        /\ domain.nk = domain.nx * domain.ny

C29_MainKept ==
    /\ domain'.main_shape = domain.main_shape
    /\ domain'.main_extension = domain.main_extension

C30_reshaped == pc \in {"solve_return", "solve_returned", "source_array"}

\* the source array has been built
C30_sourced ==
    \/ pc = "solve_returned" /\ variant = "Helmholtz_FEM"
    \/ pc = "source_array"

\* a has shape (nx, ny)
C30_shape(a) ==
    /\ DOMAIN a = 0 .. (domain.nx - 1)
    /\ \A i \in DOMAIN a : DOMAIN a[i] = 0 .. (domain.ny - 1)

C30_FieldIndexing ==
    /\ C30_reshaped =>
          /\ C30_shape(u_2d)
          /\ C30_shape(velocity_array)
          /\ pc = "solve_return" \/ result[1] = u_2d
          /\ \A i \in 0 .. (domain.nx - 1), jj \in 0 .. (domain.ny - 1) :
                /\ u_2d[i][jj] = U[jj * domain.nx + i]
                /\ (i < domain.nx - 1 /\ jj < domain.ny - 1) =>
                      /\ fem_nodes(i, jj, domain.nx)[0] = jj * domain.nx + i
                      /\ fem_x_elem(domain, i)[0] = Q3(domain.x_array[i])
                      /\ fem_y_elem(domain, jj)[0] = Q3(domain.y_array[jj])
                /\ variant = "Helmholtz_interface" =>
                      velocity_array[i][jj]
                          = IF RLt(RInt(0), domain.y_array[jj])
                            THEN <<3, 2>> ELSE <<3, 1>>
    /\ C30_sourced =>
          /\ C30_shape(source_2d)
          /\ \A i \in 0 .. (domain.nx - 1), jj \in 0 .. (domain.ny - 1) :
                source_2d[i][jj] = source_at(source, Q3(domain.x_array[i]),
                                             Q3(domain.y_array[jj]))

\* a field on a grid with more nodes in y than in x, and a source that
\* tells x from y, have been returned
C30_Witness ==
    /\ pc = "solve_returned"
    /\ variant = "Helmholtz_FEM"
    /\ domain.nx < domain.ny
    /\ source = "ramp"

====
